---- MODULE Spec2Model ----
(***************************************************************************)
(* Model of the negotiation decision core of the Negotiation-Agent         *)
(* repository: the price calculator tool, the strategy tool and the agent  *)
(* of backend/langchain_agent.py, the decision chain and the phase of      *)
(* backend/enhanced_ai_service.py, the response service of                 *)
(* backend/gemini_service.py, the session handlers of backend/main.py and  *)
(* the scraper and the market intelligence of backend/scraper_service.py.  *)
(* Each component has its own specification over the shared variables.     *)
(*                                                                         *)
(* Prices are integers.  Confidences are integers in hundredths            *)
(* (60 stands for the Python float 0.6).  Texts are sequences of tokens.   *)
(***************************************************************************)
EXTENDS Integers, Sequences, FiniteSets, TLC

VARIABLES
    calc,        \* arguments of the PriceCalculatorTool calls of one negotiation
    round,       \* negotiation_round of the next PriceCalculatorTool call
    results,     \* results of the PriceCalculatorTool calls so far, one per round
    service,     \* the EnhancedAIService object: use_langchain, GEMINI_API_KEY set
    turn,        \* the session and the collaborators' outcomes of the current call
    returned,    \* the value make_negotiation_decision returned
    logged,      \* the log entries _log_decision wrote during the call, in order
    invoked,     \* the stages the call went through, in order
    chat_history,  \* the messages of one session, in conversation order
    context,     \* the NegotiationContext prepared for the last turn
    agent_input, \* the prompt fields the agent built from the last context
    render_call, \* the arguments of the last call of the response service
    rendered,    \* the outcome of that call: the text returned, or raised
    agent_memory,  \* the ConversationBufferMemory of the one agent of the service
    agent_run,   \* the last run of the agent: its session and what it loaded
    call,        \* a call of make_negotiation_decision in progress, step by step
    active_sessions,  \* the keys of session_manager.active_sessions
    session_objects,  \* the NegotiationSession objects created, by session id
    tasks,       \* the handler coroutines of main.py and where each one is
    creation,    \* the last session creation request and its response
    sent_to_seller,  \* what main.py sent to the seller of each session, in order
    market,      \* the last call of the market intelligence and its result
    scrape,      \* the last call of the marketplace scraper and its result
    strategy     \* the last call of the strategy tool and its result

calcVars == <<calc, round, results>>
chainVars == <<service, turn, returned, logged, invoked>>
phaseVars == <<chat_history, context, agent_input>>
renderVars == <<render_call, rendered>>
agentVars == <<agent_memory, agent_run>>
mainVars == <<active_sessions, session_objects, tasks, creation, sent_to_seller>>

toolVars == <<market, scrape, strategy>>

vars == <<calcVars, chainVars, phaseVars, renderVars, agentVars, call, mainVars, toolVars>>

\* the variables of the other components, which an action leaves alone
notCalc == <<chainVars, phaseVars, renderVars, agentVars, call, mainVars, toolVars>>
notChain == <<calcVars, phaseVars, renderVars, agentVars, call, mainVars, toolVars>>
notPhase == <<calcVars, chainVars, renderVars, agentVars, call, mainVars, toolVars>>
notRender == <<calcVars, chainVars, phaseVars, agentVars, call, mainVars, toolVars>>
notAgent == <<calcVars, chainVars, phaseVars, renderVars, call, mainVars, toolVars>>
notCall == <<calcVars, chainVars, phaseVars, renderVars, agentVars, mainVars, toolVars>>
notMain == <<calcVars, chainVars, phaseVars, renderVars, agentVars, call, toolVars>>
notTools == <<calcVars, chainVars, phaseVars, renderVars, agentVars, call, mainVars>>
notMarket == <<notTools, scrape, strategy>>
notScrape == <<notTools, market, strategy>>
notStrategy == <<notTools, market, scrape>>

(***************************************************************************)
(* Bounds of the model.                                                    *)
(***************************************************************************)
MaxPrice == 8
MaxRound == 6

SmallPrices == 1..MaxPrice
\* 45 and 90: 45 * 1.1 is truncated, and 0.7 * 90 is below 63 in floating point
RoundingPrices == {45, 90}
\* the prices of the end-to-end scenarios
ScenarioPrices == {40000, 45000, 50000, 55000, 60000}
Prices == SmallPrices \cup RoundingPrices \cup ScenarioPrices

Min(a, b) == IF a <= b THEN a ELSE b
Max(a, b) == IF a >= b THEN a ELSE b

(***************************************************************************)
(* Python float arithmetic of PriceCalculatorTool._run.  int(n * c)        *)
(* truncates the correctly rounded double product.  The doubles 1.1, 0.6   *)
(* and 0.95 give the exact floor(n * c) for every n >= 0 in range; the     *)
(* double 0.7 is 0.4 * 2^-53 below 7/10, and for n = 10k the product is    *)
(* rounded to the double below 7k exactly when 4k exceeds the largest      *)
(* power of two that is at most 7k (e.g. int(90 * 0.7) = 62).              *)
(***************************************************************************)
RECURSIVE Pow2Floor(_)
Pow2Floor(x) == IF x < 2 THEN 1 ELSE 2 * Pow2Floor(x \div 2)

IntMul110(n) == (n * 11) \div 10
IntMul060(n) == (n * 6) \div 10
IntMul095(n) == (n * 95) \div 100
IntMul070(n) ==
    IF n > 0 /\ n % 10 = 0 /\ 4 * (n \div 10) > Pow2Floor(7 * (n \div 10))
    THEN 7 * (n \div 10) - 1
    ELSE (n * 7) \div 10

(***************************************************************************)
(* PriceCalculatorTool._run (langchain_agent.py:77-111).                   *)
(* price_ok = FALSE models a current_price argument that is not a number   *)
(* (the tool is called with arguments a language model wrote): arithmetic  *)
(* on it raises, and the except clause returns the failure text.           *)
(***************************************************************************)
StagedOffer(current_price, target_price, max_budget, negotiation_round) ==
    IF negotiation_round <= 2
    THEN IntMul110(target_price)
    ELSE IF negotiation_round <= 4
    THEN IntMul060(target_price + current_price)
    ELSE Min(IntMul095(max_budget), IntMul070(target_price + current_price))

\* the clamp with its upper bound dropped
ClampOffer_NoUpperBound(offer, target_price, max_budget) ==
    Max(target_price, offer)

ClampOffer(offer, target_price, max_budget) ==
    Max(target_price, Min(offer, max_budget))

PriceCalculatorTool_run(price_ok, current_price, target_price, max_budget, negotiation_round) ==
    IF negotiation_round > 2 /\ ~price_ok
    THEN [status |-> "Price calculation failed"]
    ELSE [status |-> "ok",
          suggested_offer |-> ClampOffer(StagedOffer(current_price, target_price,
                                                     max_budget, negotiation_round),
                                         target_price, max_budget),
          strategy |-> "progressive",
          confidence |-> 80]

NoTurn == [kind |-> "idle"]
NoDecision == [kind |-> "none"]
NoContext == [kind |-> "none"]

\* the components a specification does not exercise stay as constructed
CalcIdle ==
    /\ calc = [price_ok |-> TRUE, current_price |-> 1,
               target_price |-> 1, max_budget |-> 1]
    /\ round = 1
    /\ results = << >>

ChainIdle ==
    /\ service = [use_langchain |-> FALSE, gemini_api_key |-> FALSE]
    /\ turn = NoTurn
    /\ returned = NoDecision
    /\ logged = << >>
    /\ invoked = << >>

PhaseIdle ==
    /\ chat_history = << >>
    /\ context = NoContext
    /\ agent_input = NoContext

NoCall == [kind |-> "none"]

RenderIdle ==
    /\ render_call = NoCall
    /\ rendered = NoCall

NoRun == [kind |-> "none"]

AgentIdle ==
    /\ agent_memory = << >>
    /\ agent_run = NoRun

CallIdle == call = [pc |-> "idle"]

TaskNames == {"ws_seller", "post_seller", "ws_user"}
MainSessionIds == {"s1", "s2"}
IdleTask == [pc |-> "idle"]
NoCreation == [kind |-> "none"]

MainIdle ==
    /\ active_sessions = {}
    /\ session_objects = << >>
    /\ tasks = [t \in TaskNames |-> IdleTask]
    /\ creation = NoCreation
    /\ sent_to_seller = [id \in MainSessionIds |-> << >>]

MarketIdle == market = NoCall
ScrapeIdle == scrape = NoCall
StrategyIdle == strategy = NoCall

InitCalc ==
    /\ calc \in [price_ok : BOOLEAN, current_price : Prices,
                 target_price : Prices, max_budget : Prices]
    /\ round = 1
    /\ results = << >>
    /\ ChainIdle
    /\ PhaseIdle
    /\ RenderIdle
    /\ AgentIdle
    /\ CallIdle
    /\ MainIdle
    /\ MarketIdle
    /\ ScrapeIdle
    /\ StrategyIdle

\* one call of the tool; the agent calls it again for the next round
RunPriceCalculator ==
    /\ round <= MaxRound
    /\ results' = Append(results,
                         PriceCalculatorTool_run(calc.price_ok, calc.current_price,
                                                 calc.target_price, calc.max_budget, round))
    /\ round' = round + 1
    /\ UNCHANGED <<calc, notCalc>>

NextCalc == RunPriceCalculator

SpecCalc == InitCalc /\ [][NextCalc]_vars

(***************************************************************************)
(* Properties of the price calculator.                                     *)
(***************************************************************************)
Offer(i) == results[i].suggested_offer

\* C1: with integer arguments and 0 < target_price <= max_budget, every call
\* returns a result, not the failure text, and its suggested offer lies in
\* [target_price, max_budget]; with target_price = max_budget the offer is
\* that value at every round.
C1_OfferWithinBounds ==
    (calc.price_ok /\ 0 < calc.target_price /\ calc.target_price <= calc.max_budget) =>
        \A i \in 1..Len(results) :
            /\ results[i].status = "ok"
            /\ calc.target_price <= Offer(i)
            /\ Offer(i) <= calc.max_budget
            /\ (calc.target_price = calc.max_budget => Offer(i) = calc.target_price)

\* all three stages have run and the clamp has cut a raw middle-ground offer
\* of 54000 down to the budget of 50000
C1_Witness ==
    /\ calc = [price_ok |-> TRUE, current_price |-> 50000,
               target_price |-> 40000, max_budget |-> 50000]
    /\ Len(results) = MaxRound
    /\ StagedOffer(50000, 40000, 50000, 3) = 54000
    /\ Offer(3) = 50000

\* C10: for target_price < max_budget and a fixed listed price the offers are
\* non-decreasing from round to round (opening <= middle <= closing).
C10_OffersNonDecreasing ==
    (calc.price_ok /\ calc.target_price < calc.max_budget) =>
        \A i, j \in 1..Len(results) : i <= j => Offer(i) <= Offer(j)

(***************************************************************************)
(* Dictionaries and texts.                                                 *)
(* A Python dict is a function from its keys; a missing key is a key       *)
(* outside the DOMAIN.  A text is a sequence of tokens.  An optional       *)
(* price (price_offer) is a set: {} for None, {p} for the integer p.       *)
(***************************************************************************)
EmptyDict == << >>

Get(d, k, default) == IF k \in DOMAIN d THEN d[k] ELSE default

Put(d, k, v) == [x \in (DOMAIN d) \cup {k} |-> IF x = k THEN v ELSE d[x]]

\* text[:n]
Take(text, n) == SubSeq(text, 1, Min(n, Len(text)))

\* a text of n tokens
Chars(n) == [i \in 1..n |-> "x"]

\* str.find / str.rfind of a one-token pattern: 0-based index, -1 if absent
Find(text, tok) ==
    IF \E i \in 1..Len(text) : text[i] = tok
    THEN (CHOOSE i \in 1..Len(text) :
             text[i] = tok /\ \A j \in 1..(i - 1) : text[j] # tok) - 1
    ELSE -1

RFind(text, tok) ==
    IF \E i \in 1..Len(text) : text[i] = tok
    THEN (CHOOSE i \in 1..Len(text) :
             text[i] = tok /\ \A j \in (i + 1)..Len(text) : text[j] # tok) - 1
    ELSE -1

\* text[start:end] for 0 <= start, 0 <= end
Slice(text, start, end) == SubSeq(text, start + 1, Min(end, Len(text)))

(***************************************************************************)
(* A reply of a generative model is [text, members]: the text holds the    *)
(* tokens "{" and "}", the token "J" for a well-formed list of JSON        *)
(* members, and "x" for any other character; members is the dict those     *)
(* JSON members denote.  json.loads accepts exactly an object: "{", an     *)
(* optional member list, "}".                                              *)
(***************************************************************************)
JsonLoads(json_str, members) ==
    IF json_str = <<"{", "J", "}">> THEN [ok |-> TRUE, value |-> members]
    ELSE IF json_str = <<"{", "}">> THEN [ok |-> TRUE, value |-> EmptyDict]
    ELSE [ok |-> FALSE, value |-> EmptyDict]

(***************************************************************************)
(* LangChainNegotiationAgent (langchain_agent.py).                         *)
(***************************************************************************)
\* _get_default_value (langchain_agent.py:447-458)
get_default_value(field) ==
    CASE field = "message" -> <<"I need to review this further.">>
      [] field = "action_type" -> "respond"
      [] field = "confidence" -> 75
      [] field = "reasoning" -> <<"Default response due to parsing issue">>

\* _create_fallback_response (langchain_agent.py:460-470)
create_fallback_response(raw_response) ==
    [message |-> Take(raw_response, 500),
     action_type |-> "respond",
     price_offer |-> {},
     confidence |-> 75,
     reasoning |-> <<"Parsed from unstructured response">>,
     tactics_used |-> <<"analytical">>,
     next_steps |-> <<"await_seller_response">>]

\* the loop over required_fields (langchain_agent.py:433-436)
FillRequired(parsed) ==
    LET required_fields == {"message", "action_type", "confidence", "reasoning"}
    IN  [k \in (DOMAIN parsed) \cup required_fields |->
            IF k \in DOMAIN parsed THEN parsed[k] ELSE get_default_value(k)]

\* _parse_agent_response (langchain_agent.py:421-445)
parse_agent_response(response) ==
    LET start_idx == Find(response.text, "{")
        end_idx == RFind(response.text, "}") + 1
    IN  IF start_idx # -1 /\ end_idx # -1
        THEN LET loaded == JsonLoads(Slice(response.text, start_idx, end_idx),
                                     response.members)
             IN  IF loaded.ok
                 THEN FillRequired(loaded.value)
                 ELSE create_fallback_response(response.text)
        ELSE create_fallback_response(response.text)

\* the dict json.dumps'ed by _run_agent_async when agent.run raises
\* (langchain_agent.py:407-419)
RunAgentFallback ==
    [message |-> <<"I need to review this further. Let me consider the best approach.">>,
     action_type |-> "question",
     price_offer |-> {},
     confidence |-> 50,
     reasoning |-> <<"Agent error">>,
     tactics_used |-> <<"fallback">>,
     next_steps |-> <<"retry_with_fallback">>]

\* _run_agent_async (langchain_agent.py:400-419): the reply of agent.run, or
\* the JSON text of the fallback dict when agent.run raises
run_agent_async(agent) ==
    IF agent.kind = "raises"
    THEN [text |-> <<"{", "J", "}">>, members |-> RunAgentFallback]
    ELSE [text |-> agent.text, members |-> agent.members]

\* the except clause of generate_negotiation_response (langchain_agent.py:386-398)
AgentErrorResponse ==
    [message |-> <<"I'm analyzing your negotiation. Let me consider the best approach.">>,
     action_type |-> "question",
     price_offer |-> {},
     confidence |-> 50,
     reasoning |-> <<"Agent error">>,
     tactics_used |-> <<"fallback">>,
     next_steps |-> <<"retry_with_fallback">>,
     source |-> "langchain_agent_fallback"]

\* generate_negotiation_response (langchain_agent.py:297-398).  agent.kind is
\* "prompt_error" when building the prompt raises before the agent is run,
\* "raises" when agent.run raises, "reply" when it returns a text.
generate_negotiation_response(agent) ==
    IF agent.kind = "prompt_error"
    THEN AgentErrorResponse
    ELSE Put(Put(parse_agent_response(run_agent_async(agent)),
                 "source", "langchain_agent"),
             "timestamp", "now")

(***************************************************************************)
(* EnhancedAIService (enhanced_ai_service.py).                             *)
(* A raising call is an outcome of kind "raises".  Optional values         *)
(* (None) and raising operators return [ok |-> FALSE].                     *)
(***************************************************************************)
\* _get_gemini_enhancement (enhanced_ai_service.py:253-309).  gemini is the
\* outcome of gemini_service.generate_text: it raises, returns nothing, or
\* returns a dict whose content is a reply.
get_gemini_enhancement(gemini) ==
    IF gemini.kind = "raises" \/ gemini.kind = "none" \/ Len(gemini.text) = 0
    THEN [ok |-> FALSE, value |-> EmptyDict]
    ELSE LET first == Find(gemini.text, "{")
             last == RFind(gemini.text, "}")
             \* re.search(r'\{.*\}', content, re.DOTALL)
             json_match == first # -1 /\ first < last
             loaded == JsonLoads(Slice(gemini.text, first, last + 1), gemini.members)
         IN  IF json_match /\ loaded.ok
             THEN [ok |-> TRUE, value |-> loaded.value]
             ELSE [ok |-> TRUE,
                   value |-> [message_enhancement |-> Take(gemini.text, 200),
                              strategy_tips |-> <<"Use Gemini's advice">>,
                              confidence_adjustment |-> [num |-> TRUE, val |-> 10]]]

\* the tips added without the limit of two
MergeTactics_AllTips(current_tactics, strategy_tips) ==
    current_tactics \o strategy_tips

\* current_tactics + strategy_tips[:2]
MergeTactics(current_tactics, strategy_tips) ==
    current_tactics \o Take(strategy_tips, 2)

\* _merge_gemini_enhancement (enhanced_ai_service.py:311-334).  A JSON number
\* is [num |-> TRUE, val |-> n]; adding any other JSON value to the
\* confidence raises.
MergedDecision(base_decision, enhancement) ==
    LET message_enhancement == Get(enhancement, "message_enhancement", << >>)
        message == IF Len(message_enhancement) > 0
                   THEN Get(base_decision, "message", << >>) \o <<" ">>
                            \o Take(message_enhancement, 100)
                   ELSE Get(base_decision, "message", << >>)
        confidence_adj == Get(enhancement, "confidence_adjustment",
                              [num |-> TRUE, val |-> 0])
        current_confidence == Get(base_decision, "confidence", 70)
        strategy_tips == Get(enhancement, "strategy_tips", << >>)
        current_tactics == Get(base_decision, "tactics_used", << >>)
        with_message == IF Len(message_enhancement) > 0
                        THEN Put(base_decision, "message", message)
                        ELSE base_decision
    IN  IF ~confidence_adj.num
        THEN [ok |-> FALSE, value |-> base_decision]
        ELSE [ok |-> TRUE,
              value |->
                Put(Put(Put(with_message,
                    "confidence",
                        Min(100, Max(0, current_confidence + confidence_adj.val))),
                    "tactics_used", MergeTactics(current_tactics, strategy_tips)),
                    "reasoning", Get(base_decision, "reasoning", << >>)
                                     \o <<" Enhanced with Gemini insights.">>)]

\* the variant that works on the dict it was passed instead of a copy
merge_gemini_enhancement_NoCopy(base_decision, enhancement) ==
    LET merged == MergedDecision(base_decision, enhancement)
    IN  [ok |-> merged.ok, value |-> merged.value, base |-> merged.value]

\* the decision returned and, as base, the content of the dict passed in
\* when the method is left: the method assigns to the keys of
\* base_decision.copy() only, and current_tactics + strategy_tips[:2] is a
\* new list
merge_gemini_enhancement(base_decision, enhancement) ==
    LET merged == MergedDecision(base_decision, enhancement)
    IN  [ok |-> merged.ok, value |-> merged.value, base |-> base_decision]

\* _combine_with_mcp (enhanced_ai_service.py:336-358) with mcp_insights = None,
\* the only value make_negotiation_decision passes (line 148)
combine_with_mcp(base_decision) == base_decision

\* the ultimate fallback with the confidence of the stage-2 default
EmergencyFallback_Confidence60 ==
    [message |-> <<"I'm interested in this product. What's your best price?">>,
     action_type |-> "question",
     price_offer |-> {},
     confidence |-> 60,
     reasoning |-> <<"Emergency fallback response">>,
     tactics_used |-> <<"basic_inquiry">>,
     next_steps |-> <<"await_seller_response">>]

\* the ultimate fallback of _fallback_decision (enhanced_ai_service.py:389-398)
EmergencyFallback ==
    [message |-> <<"I'm interested in this product. What's your best price?">>,
     action_type |-> "question",
     price_offer |-> {},
     confidence |-> 50,
     reasoning |-> <<"Emergency fallback response">>,
     tactics_used |-> <<"basic_inquiry">>,
     next_steps |-> <<"await_seller_response">>]

\* _fallback_decision (enhanced_ai_service.py:360-398): engine is the outcome
\* of its call of negotiation_engine.process_negotiation_turn
fallback_decision(engine) ==
    IF engine.kind = "raises"
    THEN EmergencyFallback
    ELSE LET decision == engine.decision
         IN  [message |-> Get(decision, "message",
                  <<"I'm interested in this product. Can we discuss the price?">>),
              action_type |-> Get(decision, "action_type", "question"),
              price_offer |-> Get(decision, "price_offer", {}),
              confidence |-> Get(decision, "confidence", 60),
              reasoning |-> <<"Fallback negotiation engine">>,
              tactics_used |-> <<"traditional_negotiation">>,
              next_steps |-> <<"await_seller_response">>]

\* the log entry of _log_decision (enhanced_ai_service.py:423-442)
log_decision(decision, session_data) ==
    [timestamp |-> "now",
     session_id |-> session_data.session_id,
     decision |-> decision,
     context_summary |-> [user_id |-> session_data.user_id,
                          product_id |-> session_data.product_id,
                          negotiation_round |-> session_data.chat_len]]

\* the acceptance test with the threshold itself accepted
AcceptsPrimary_AtLeast(langchain_decision) ==
    Get(langchain_decision, "confidence", 0) >= 60

\* the acceptance test of the primary decision (enhanced_ai_service.py:136)
AcceptsPrimary(langchain_decision) ==
    Get(langchain_decision, "confidence", 0) > 60

\* steps 5 to 7 of make_negotiation_decision (enhanced_ai_service.py:162-181)
EnhanceLogReturn(srv, session_data, env, lc, trace) ==
    LET engine_decision == env.engine1.decision
        enhancement == get_gemini_enhancement(env.gemini)
        merged == merge_gemini_enhancement(engine_decision, enhancement.value)
        \* "if gemini_enhancement:" is false for None and for an empty dict
        merge_called == enhancement.ok /\ DOMAIN enhancement.value # {}
        enhanced == IF srv.gemini_api_key /\ merge_called /\ merged.ok
                    THEN merged.value
                    ELSE engine_decision
        final_decision == combine_with_mcp(enhanced)
    IN  [returned |-> final_decision,
         engine_decision_object |-> IF srv.gemini_api_key /\ merge_called
                                    THEN merged.base ELSE engine_decision,
         langchain_decision |-> lc,
         logged |-> <<log_decision(final_decision, session_data)>>,
         invoked |-> trace
                     \o (IF srv.gemini_api_key THEN <<"gemini_enhancement">> ELSE << >>)
                     \o (IF srv.gemini_api_key /\ merge_called
                         THEN <<"merge_gemini_enhancement">> ELSE << >>)
                     \o <<"log_decision">>]

\* the except clause of make_negotiation_decision (enhanced_ai_service.py:183-185)
ExceptFallback(env, lc, trace) ==
    [returned |-> fallback_decision(env.engine2),
     engine_decision_object |-> NoDecision,
     langchain_decision |-> lc,
     logged |-> << >>,
     invoked |-> trace \o <<"fallback_decision", "negotiation_engine">>]

\* step 4 onwards (enhanced_ai_service.py:157-185)
EngineStage(srv, session_data, env, lc, trace) ==
    IF env.engine1.kind = "raises"
    THEN ExceptFallback(env, lc, trace \o <<"negotiation_engine">>)
    ELSE EnhanceLogReturn(srv, session_data, env, lc, trace \o <<"negotiation_engine">>)

\* make_negotiation_decision (enhanced_ai_service.py:100-185).  env holds the
\* outcomes of the calls the method makes: prepare_ok (whether
\* _prepare_negotiation_context returns), context_valid (whether the
\* LangChainContext constructor accepts the arguments), agent, engine1,
\* gemini, and engine2 (the engine call of _fallback_decision).  The result
\* holds the returned decision, the content of the dict the engine returned
\* as it is when the method is left (engine_decision_object), the local
\* langchain_decision, the log entries written and the stages gone through.
make_negotiation_decision(srv, session_data, env) ==
    IF ~env.prepare_ok
    THEN ExceptFallback(env, NoDecision, <<"prepare_context">>)
    ELSE IF srv.use_langchain
    THEN IF ~env.context_valid
         THEN EngineStage(srv, session_data, env, NoDecision, <<"prepare_context">>)
         ELSE LET langchain_decision == generate_negotiation_response(env.agent)
                  trace == <<"prepare_context", "langchain_agent">>
              IN  IF AcceptsPrimary(langchain_decision)
                  THEN [returned |-> langchain_decision,
                        engine_decision_object |-> NoDecision,
                        langchain_decision |-> langchain_decision,
                        logged |-> <<log_decision(langchain_decision, session_data)>>,
                        invoked |-> trace \o <<"log_decision">>]
                  ELSE EngineStage(srv, session_data, env, langchain_decision, trace)
    ELSE EngineStage(srv, session_data, env, NoDecision, <<"prepare_context">>)

(***************************************************************************)
(* The inputs of a turn: the session and the outcomes of the               *)
(* collaborators.                                                          *)
(***************************************************************************)
SessionPrices == {45000, 50000, 55000}
PriceStep == 5000

\* session_data; target_price <= max_budget
SessionData(t, b) ==
    [session_id |-> "s1", user_id |-> "u1", product_id |-> "p1", chat_len |-> 0,
     target_price |-> t, max_budget |-> b]

Sessions ==
    {SessionData(tb[1], tb[2]) :
        tb \in {x \in SessionPrices \X SessionPrices : x[1] <= x[2]}}

DictWithout(d, keys) == [k \in (DOMAIN d) \ keys |-> d[k]]

Unused == [kind |-> "unused"]
Raises == [kind |-> "raises"]

\* a decision in the JSON format the agent prompt asks for
AgentJson(price_offer, confidence) ==
    [message |-> <<"agent message">>,
     action_type |-> "counter_offer",
     price_offer |-> price_offer,
     confidence |-> confidence,
     reasoning |-> <<"agent reasoning">>,
     tactics_used |-> <<"anchoring">>,
     next_steps |-> <<"await_seller_response">>]

JsonObject == <<"{", "J", "}">>

Reply(text, members) == [kind |-> "reply", text |-> text, members |-> members]

\* what agent.run can do: the language model's text is not under the
\* program's control
AgentOutcomes(s) ==
    {Raises, [kind |-> "prompt_error"]}
    \cup {Reply(JsonObject, AgentJson(p, c)) :
            p \in {{}, {s.target_price}, {s.max_budget},
                   {s.target_price - PriceStep}, {s.max_budget + PriceStep}},
            c \in {50, 60, 61, 90}}
    \cup {Reply(JsonObject, DictWithout(AgentJson({s.target_price}, 90), {"confidence"})),
          Reply(JsonObject, DictWithout(AgentJson({s.target_price}, 90),
                                        {"price_offer", "tactics_used", "next_steps"})),
          Reply(<<"x", "{", "J", "}", "x">>, AgentJson({s.target_price}, 90)),
          Reply(<<"{", "}">>, EmptyDict),
          Reply(<<"x", "x", "x">>, EmptyDict),
          Reply(<<"{", "J">>, EmptyDict),
          Reply(<<"}", "x", "{">>, EmptyDict),
          Reply(<<"{", "J", "}", "x", "}">>, AgentJson({s.target_price}, 90))}

\* the decisions of the heuristic engine: well-formed, priced within
\* [target_price, max_budget] or without a price
EngineDecision(action_type, price_offer, confidence) ==
    [message |-> <<"engine message">>,
     action_type |-> action_type,
     price_offer |-> price_offer,
     confidence |-> confidence,
     reasoning |-> <<"engine reasoning">>,
     tactics_used |-> <<"anchoring">>,
     next_steps |-> <<"await_seller_response">>]

EngineDecisions(s) ==
    {EngineDecision("offer", {s.target_price}, 70),
     EngineDecision("counter_offer", {s.max_budget}, 95),
     EngineDecision("question", {}, 60),
     EngineDecision("accept", {s.max_budget}, 15)}

\* negotiation_engine.process_negotiation_turn: returns a decision or raises
EngineOutcomes(s) ==
    {Raises} \cup {[kind |-> "returns", decision |-> d] : d \in EngineDecisions(s)}

JsonNumber(n) == [num |-> TRUE, val |-> n]
JsonString == [num |-> FALSE, val |-> 0]

MaxReplyLen == 201

\* what gemini_service.generate_text can do
GeminiOutcomes ==
    {Raises, [kind |-> "none"], Reply(<< >>, EmptyDict),
     Reply(<<"x", "x", "x">>, EmptyDict),
     Reply(Chars(MaxReplyLen), EmptyDict),
     Reply(<<"x", "{", "J">>, EmptyDict),
     Reply(<<"{", "}">>, EmptyDict),
     Reply(<<"x", "{", "J", "}", "x">>,
           [message_enhancement |-> <<"e", "n", "h">>,
            strategy_tips |-> <<"tip1", "tip2", "tip3">>,
            confidence_adjustment |-> JsonNumber(10)]),
     Reply(JsonObject,
           [message_enhancement |-> Chars(MaxReplyLen - 100),
            strategy_tips |-> <<"tip1">>,
            confidence_adjustment |-> JsonNumber(-20)]),
     Reply(JsonObject, [strategy_tips |-> <<"tip1", "tip2">>]),
     Reply(JsonObject,
           [message_enhancement |-> <<"e", "n", "h">>,
            confidence_adjustment |-> JsonString])}

(***************************************************************************)
(* The decision service as a state machine: a turn is one call of          *)
(* make_negotiation_decision; the caller then takes the decision.          *)
(***************************************************************************)
Init ==
    /\ CalcIdle
    /\ PhaseIdle
    /\ RenderIdle
    /\ AgentIdle
    /\ CallIdle
    /\ MainIdle
    /\ MarketIdle
    /\ ScrapeIdle
    /\ StrategyIdle
    /\ service \in [use_langchain : BOOLEAN, gemini_api_key : BOOLEAN]
    /\ turn = NoTurn
    /\ returned = NoDecision
    /\ logged = << >>
    /\ invoked = << >>

MakeNegotiationDecision ==
    /\ turn = NoTurn
    /\ \E s \in Sessions, prepare_ok \in BOOLEAN :
       \E context_valid \in IF prepare_ok /\ service.use_langchain
                            THEN BOOLEAN ELSE {TRUE} :
       \E agent \in IF prepare_ok /\ service.use_langchain /\ context_valid
                    THEN AgentOutcomes(s) ELSE {Unused} :
       LET accepted == agent # Unused
                       /\ AcceptsPrimary(generate_negotiation_response(agent))
       IN
       \E engine1 \in IF prepare_ok /\ ~accepted THEN EngineOutcomes(s) ELSE {Unused} :
       \E gemini \in IF engine1.kind = "returns" /\ service.gemini_api_key
                     THEN GeminiOutcomes ELSE {Unused} :
       \E engine2 \in IF ~prepare_ok \/ engine1.kind = "raises"
                      THEN EngineOutcomes(s) ELSE {Unused} :
       LET env == [prepare_ok |-> prepare_ok, context_valid |-> context_valid,
                   agent |-> agent, engine1 |-> engine1, gemini |-> gemini,
                   engine2 |-> engine2]
           result == make_negotiation_decision(service, s, env)
       IN  /\ turn' = [kind |-> "turn", session |-> s, env |-> env,
                       langchain_decision |-> result.langchain_decision,
                       engine_decision_object |-> result.engine_decision_object]
           /\ returned' = result.returned
           /\ logged' = result.logged
           /\ invoked' = result.invoked
    /\ UNCHANGED <<service, notChain>>

\* the caller has the decision; the service is ready for the next turn
TakeDecision ==
    /\ turn # NoTurn
    /\ turn' = NoTurn
    /\ returned' = NoDecision
    /\ logged' = << >>
    /\ invoked' = << >>
    /\ UNCHANGED <<service, notChain>>

Next == MakeNegotiationDecision \/ TakeDecision

Spec == Init /\ [][Next]_vars

(***************************************************************************)
(* Properties of make_negotiation_decision.  They are stated of the state  *)
(* in which the call has returned.                                         *)
(***************************************************************************)
Returned == turn # NoTurn

RequiredFields ==
    {"message", "action_type", "price_offer", "confidence", "reasoning",
     "tactics_used", "next_steps"}

\* the returned decision is the one the primary agent produced
PrimaryReturned == "source" \in DOMAIN returned

Invoked(stage) == \E i \in 1..Len(invoked) : invoked[i] = stage

AgentCalled == turn.env.agent # Unused
GeminiCalled == turn.env.gemini # Unused

\* C2: a returned decision with a price offer has
\* target_price <= price_offer <= max_budget, whichever stage produced it.
C2_ReturnedOfferWithinBounds ==
    Returned =>
        \A p \in Get(returned, "price_offer", {}) :
            turn.session.target_price <= p /\ p <= turn.session.max_budget

\* C3: the call returns a decision that has all the required fields, for
\* every combination of outcomes of the agent, the engine and Gemini.
C3_AllRequiredFields ==
    Returned => RequiredFields \subseteq DOMAIN returned

\* the LangChain agent and Gemini were both called in the turn and both raised
AllExternalCallsRaised ==
    /\ turn.env.agent = Raises
    /\ turn.env.gemini = Raises

\* C4 as stated: when the LangChain agent and Gemini raise on every call, the
\* emergency fallback (confidence 0.5, question) is returned.
C4_EmergencyFallbackWhenExternalsRaise ==
    (Returned /\ AllExternalCallsRaised) =>
        (returned.confidence = 50 /\ returned.action_type = "question")

\* C4 as amended: when the LangChain agent and Gemini raise, the decision of
\* the heuristic engine is returned unchanged.  The emergency fallback
\* (confidence 0.5, question, no price) is returned when the engine raises on
\* every call of the turn, and only then.
C4_EngineDecidesWhenExternalsRaise ==
    Returned =>
        /\ AllExternalCallsRaised => returned = turn.env.engine1.decision
        /\ turn.env.engine2 = Raises =>
              /\ returned.confidence = 50
              /\ returned.action_type = "question"
              /\ returned.price_offer = {}
              /\ returned.reasoning = <<"Emergency fallback response">>
        /\ returned.reasoning = <<"Emergency fallback response">> =>
              /\ turn.env.engine1 \in {Raises, Unused}
              /\ turn.env.engine2 = Raises

\* the agent and Gemini were both called and both raised, and the engine's
\* offer came back
C4_Witness ==
    /\ Returned
    /\ AllExternalCallsRaised
    /\ turn.env.engine1.kind = "returns"
    /\ returned.action_type = "offer"
    /\ returned.confidence = 70

\* C5: the primary decision is returned, and the engine not invoked, iff the
\* agent was called, did not raise and returned a confidence above 0.6;
\* otherwise the engine stage follows, after the agent stage.
C5_PrimaryIffConfident ==
    Returned =>
        /\ PrimaryReturned <=>
              (/\ AgentCalled
               /\ turn.env.agent.kind = "reply"
               /\ turn.langchain_decision.confidence > 60)
        /\ PrimaryReturned =>
              (returned = turn.langchain_decision /\ ~Invoked("negotiation_engine"))
        /\ ~PrimaryReturned => Invoked("negotiation_engine")
        /\ \A i, j \in 1..Len(invoked) :
              (invoked[i] = "langchain_agent" /\ invoked[j] = "negotiation_engine")
                  => i < j

\* a well-formed primary decision with confidence exactly 0.6 was passed over
\* and the engine's decision returned
C5_Witness ==
    /\ Returned
    /\ AgentCalled
    /\ turn.env.agent.kind = "reply"
    /\ turn.env.agent.text = JsonObject
    /\ RequiredFields \subseteq DOMAIN turn.env.agent.members
    /\ turn.langchain_decision.confidence = 60
    /\ invoked[2] = "langchain_agent"
    /\ invoked[3] = "negotiation_engine"
    /\ ~PrimaryReturned

\* the agent failed, or its reply holds no JSON object, or the object lacks a
\* field the parser requires
MalformedPrimary ==
    LET a == turn.env.agent
    IN  \/ a.kind = "raises"
        \/ a.kind = "prompt_error"
        \/ /\ a.kind = "reply"
           /\ \/ Find(a.text, "{") = -1
              \/ ~JsonLoads(Slice(a.text, Find(a.text, "{"), RFind(a.text, "}") + 1),
                            a.members).ok
              \/ ~({"message", "action_type", "confidence", "reasoning"}
                      \subseteq DOMAIN a.members)

\* C6: when the primary agent fails or returns malformed content, its output
\* is not returned and the engine stage is entered.
C6_MalformedPrimaryFallsThrough ==
    (Returned /\ AgentCalled /\ MalformedPrimary) =>
        (~PrimaryReturned /\ Invoked("negotiation_engine"))

\* C7: when the engine raises in stage 2, the default stage-2 decision is
\* returned: question, generic inquiry, confidence 0.6.
C7_DefaultDecisionWhenEngineRaises ==
    (Returned /\ turn.env.engine1 = Raises) =>
        /\ returned.action_type = "question"
        /\ returned.confidence = 60
        /\ returned.message =
               <<"I'm interested in this product. Can we discuss the price?">>

\* C8: on every path the returned decision has been passed to _log_decision.
C8_ReturnedDecisionLogged ==
    Returned => \E i \in 1..Len(logged) : logged[i].decision = returned

\* the enhancement pass failed: Gemini raised or returned nothing, its reply
\* holds no JSON object, or the merge raised
EnhancementFailed ==
    LET g == turn.env.gemini
    IN  \/ g.kind = "raises"
        \/ g.kind = "none"
        \/ /\ g.kind = "reply"
           /\ \/ Len(g.text) = 0
              \/ Find(g.text, "{") = -1
              \/ ~JsonLoads(Slice(g.text, Find(g.text, "{"), RFind(g.text, "}") + 1),
                            g.members).ok
              \/ ~Get(g.members, "confidence_adjustment", JsonNumber(0)).num

MaxHistory == 4

Contains(text, phrase) == phrase \in text

\* any(word in text for word in words)
AnyOf(text, words) == \E w \in words : Contains(text, w)

\* s[-n:]
LastN(s, n) == SubSeq(s, Max(1, Len(s) - n + 1), Len(s))

Greeting == {"hello"}
FinalOffer == {"final"}
LastPrice == {"last"}
CounterText == {"counter"}
\* "Sorry, that's too low, minimum is firm"
Rejection == {"sorry", "too low", "minimum", "firm"}
EmptyText == {}

SellerTexts == {Greeting, FinalOffer, LastPrice, CounterText, Rejection}
BuyerTexts == {Greeting}

ChatMessage(sender, content) == [sender |-> sender, content |-> content]

Messages ==
    {ChatMessage("seller", c) : c \in SellerTexts}
        \cup {ChatMessage("buyer", c) : c \in BuyerTexts}

\* " ".join(texts): a phrase of the phase lexicon has no blank, so it occurs
\* in the joined text exactly when it occurs in one of the texts
Join(texts) == UNION {texts[i] : i \in DOMAIN texts}

\* the variant that looks at the message count before the closing lexicon
determine_phase_CountFirst(history, current_message) ==
    IF history = << >> THEN "opening"
    ELSE
    LET message_count == Len(history)
        recent == LastN(history, 3)
        recent_messages == [i \in 1..Len(recent) |-> recent[i].content]
                               \o <<current_message>>
        combined_recent == Join(recent_messages)
    IN  IF Contains(combined_recent, "counter") \/ message_count > 3
        THEN "bargaining"
        ELSE IF Contains(combined_recent, "final")
                    \/ Contains(combined_recent, "last")
        THEN "closing"
        ELSE IF message_count <= 2 THEN "opening"
        ELSE "negotiation"

determine_phase(history, current_message) ==
    IF history = << >> THEN "opening"
    ELSE
    LET message_count == Len(history)
        recent == LastN(history, 3)
        recent_messages == [i \in 1..Len(recent) |-> recent[i].content]
                               \o <<current_message>>
        combined_recent == Join(recent_messages)
    IN  IF Contains(combined_recent, "final")
               \/ Contains(combined_recent, "last")
        THEN "closing"
        ELSE IF Contains(combined_recent, "counter") \/ message_count > 3
        THEN "bargaining"
        ELSE IF message_count <= 2 THEN "opening"
        ELSE "negotiation"

IsSeller(msg) == msg.sender = "seller"

\* the part of the context that the phase and the seller analysis use;
\* seller_message records the inbound message the context was prepared for
prepare_negotiation_context(history, seller_message) ==
    LET sellers == SelectSeq(history, IsSeller)
        seller_messages == [i \in 1..Len(sellers) |-> sellers[i].content]
    IN  [kind |-> "context",
         seller_message |-> seller_message,
         seller_messages |-> IF seller_message # EmptyText
                             THEN Append(seller_messages, seller_message)
                             ELSE seller_messages,
         chat_history |-> history,
         negotiation_phase |-> determine_phase(history, seller_message)]

RejectionWords == {"no", "can't", "impossible", "too low", "minimum", "sorry"}
AcceptanceWords == {"okay", "yes", "agreed", "fine", "deal", "accept"}
ConsiderationWords == {"maybe", "consider", "think", "possible", "let me"}
UltimatumWords == {"final", "last", "best", "lowest"}
CounterWords == {"counter", "what about", "how about"}

\* a line of conversation_flow is f"{msg.sender}: {msg.content}"; the
\* prefixes "seller: " and "buyer: " hold no phrase of the lexicons
StartsWithSeller(line) == line.sender = "Seller"

AnalyzeLine(acc, line) ==
    IF ~StartsWithSeller(line) THEN acc
    ELSE IF AnyOf(line.content, RejectionWords)
    THEN [acc EXCEPT !.seller_sentiment = "resistant",
                     !.seller_tactics = Append(@, "rejection")]
    ELSE IF AnyOf(line.content, AcceptanceWords)
    THEN [acc EXCEPT !.seller_sentiment = "agreeable",
                     !.seller_tactics = Append(@, "acceptance")]
    ELSE IF AnyOf(line.content, ConsiderationWords)
    THEN [acc EXCEPT !.seller_sentiment = "open",
                     !.seller_tactics = Append(@, "consideration")]
    ELSE IF AnyOf(line.content, UltimatumWords)
    THEN [acc EXCEPT !.negotiation_stage = "closing",
                     !.seller_tactics = Append(@, "ultimatum")]
    ELSE IF AnyOf(line.content, CounterWords)
    THEN [acc EXCEPT !.seller_tactics = Append(@, "counter_offer")]
    ELSE acc

RECURSIVE AnalyzeFlow(_, _)
AnalyzeFlow(conversation_flow, i) ==
    IF i = 0
    THEN [seller_sentiment |-> "neutral", negotiation_stage |-> "initial",
          seller_tactics |-> << >>]
    ELSE AnalyzeLine(AnalyzeFlow(conversation_flow, i - 1), conversation_flow[i])

\* the prompt fields generate_negotiation_response derives from the context
BuildAgentInput(ctx) ==
    LET conversation_flow == LastN(ctx.chat_history, 6)
        analysis == AnalyzeFlow(conversation_flow, Len(conversation_flow))
        seller_message_count ==
            Len(SelectSeq(conversation_flow, StartsWithSeller))
    IN  [kind |-> "input",
         seller_message |-> IF ctx.seller_messages # << >>
                            THEN ctx.seller_messages[Len(ctx.seller_messages)]
                            ELSE EmptyText,
         negotiation_phase |-> ctx.negotiation_phase,
         seller_sentiment |-> analysis.seller_sentiment,
         negotiation_stage |-> IF seller_message_count = 1 THEN "opening"
                               ELSE IF seller_message_count > 3 THEN "advanced"
                               ELSE "middle",
         seller_tactics |-> analysis.seller_tactics]

InitPhase ==
    /\ CalcIdle
    /\ ChainIdle
    /\ PhaseIdle
    /\ RenderIdle
    /\ AgentIdle
    /\ CallIdle
    /\ MainIdle
    /\ MarketIdle
    /\ ScrapeIdle
    /\ StrategyIdle

\* the inbound message of the last turn is not yet in the session
InboundPending ==
    /\ context # NoContext
    /\ context.seller_message # EmptyText
    /\ Len(chat_history) = Len(context.chat_history)

\* the caller stores a message of the conversation in the session: after a
\* turn the inbound seller message first, then any message
AppendMessage ==
    /\ Len(chat_history) < MaxHistory
    /\ \E m \in IF InboundPending
                THEN {ChatMessage("seller", context.seller_message)}
                ELSE Messages :
          chat_history' = Append(chat_history, m)
    /\ UNCHANGED <<context, agent_input, notPhase>>

\* a turn: the service prepares the context for the inbound seller message
\* and, when the agent is in use, the agent builds its prompt from it
PrepareTurn ==
    /\ ~InboundPending
    /\ \E seller_message \in SellerTexts \cup {EmptyText},
          use_langchain \in BOOLEAN :
          LET ctx == prepare_negotiation_context(chat_history, seller_message)
          IN  /\ context' = ctx
              /\ agent_input' = IF use_langchain THEN BuildAgentInput(ctx)
                                ELSE NoContext
    /\ UNCHANGED <<chat_history, notPhase>>

NextPhase == AppendMessage \/ PrepareTurn

SpecPhase == InitPhase /\ [][NextPhase]_vars

(***************************************************************************)
(* Properties of the phase and of the seller analysis of a turn.           *)
(***************************************************************************)
Prepared == context.kind = "context"

\* the texts the phase of the prepared turn was decided on
RecentTexts ==
    {context.seller_message}
        \cup {context.chat_history[i].content :
                  i \in Max(1, Len(context.chat_history) - 2)
                            ..Len(context.chat_history)}

ClosingWord == \E t \in RecentTexts : "final" \in t \/ "last" \in t
CounterWord == \E t \in RecentTexts : "counter" \in t
MessageCount == Len(context.chat_history)

FirstMatchPhase ==
    IF ClosingWord THEN "closing"
    ELSE IF CounterWord \/ MessageCount > 3 THEN "bargaining"
    ELSE IF MessageCount <= 2 THEN "opening"
    ELSE "negotiation"

\* C11: the phase of a turn is the first match of: a recent message holds
\* "final" or "last" -> closing, whatever the number of messages in the
\* history; else "counter" or more than 3 messages -> bargaining; else at
\* most 2 messages -> opening; else negotiation.
C11_PhaseIsFirstMatch ==
    Prepared => context.negotiation_phase = FirstMatchPhase

\* C11 as amended: the first-match rules hold of a turn with a non-empty
\* history; a turn with an empty history is in phase opening whatever the
\* inbound message holds.
C11_PhaseIsFirstMatchOnNonEmptyHistory ==
    Prepared =>
        /\ MessageCount > 0 => context.negotiation_phase = FirstMatchPhase
        /\ MessageCount = 0 => context.negotiation_phase = "opening"

\* a closing word in the recent messages of a history of more than 3
C11_Witness ==
    /\ Prepared
    /\ ClosingWord
    /\ MessageCount > 3
    /\ context.negotiation_phase = "closing"

PhaseRank(phase) ==
    IF phase = "opening" THEN 0
    ELSE IF phase = "closing" THEN 2
    ELSE 1

\* C12: over the turns of one session the phase never moves backwards in
\* the order opening < bargaining/negotiation < closing.
C12_PhaseNeverMovesBackwards ==
    [][(Prepared /\ context'.kind = "context") =>
           PhaseRank(context.negotiation_phase)
               <= PhaseRank(context'.negotiation_phase)]_vars

InputBuilt == agent_input.kind = "input"

InSeq(x, seq) == \E i \in DOMAIN seq : seq[i] = x

\* C13: in a turn whose inbound seller message holds a word of the
\* rejection lexicon, the agent's seller_sentiment is resistant and its
\* seller_tactics include rejection.
C13_RejectionMakesSellerResistant ==
    (InputBuilt /\ AnyOf(context.seller_message, RejectionWords)) =>
        /\ agent_input.seller_sentiment = "resistant"
        /\ InSeq("rejection", agent_input.seller_tactics)

(***************************************************************************)
(* The response service of backend/gemini_service.py.  A text the service  *)
(* returns is modelled by the template it was built from and the prices    *)
(* interpolated into it, in order.                                         *)
(***************************************************************************)
\* int(n * 1.15): the double 1.15 is 0.4 * 2^-52 below 23/20, and for n = 20k
\* the product is rounded to the double below 23k exactly when 16k exceeds
\* the largest power of two that is at most 23k (e.g. int(100 * 1.15) = 114)
IntMul115(n) ==
    IF n > 0 /\ n % 20 = 0 /\ 16 * (n \div 20) > Pow2Floor(23 * (n \div 20))
    THEN 23 * (n \div 20) - 1
    ELSE (n * 115) \div 100

Text(template, prices) ==
    [kind |-> "text", template |-> template, prices |-> prices]

\* the text the generative model wrote
GeneratedText == Text(<<"generated", "any">>, << >>)

ApproachNames == {"assertive", "diplomatic", "considerate"}

\* NegotiationApproach(approach.lower()), DIPLOMATIC on ValueError
ToApproach(approach) ==
    IF approach \in ApproachNames THEN approach ELSE "diplomatic"

CounterOfferStep == 5000

\* the rejection counter-offer
CounterOffer(target_price) ==
    Min(IntMul115(target_price), target_price + CounterOfferStep)

get_fallback_response(approach, target_price, history) ==
    LET a == ToApproach(approach)
        seller_messages == SelectSeq(history, IsSeller)
        last_message == seller_messages[Len(seller_messages)].content
    IN  IF seller_messages = << >>
        THEN Text(<<"opening", a>>, <<target_price>>)
        ELSE IF AnyOf(last_message, {"hi", "hello", "available"})
        THEN Text(<<"greeting", a>>, <<target_price>>)
        ELSE IF AnyOf(last_message, {"price", "cost", "amount"})
        THEN Text(<<"price", a>>, <<target_price>>)
        ELSE IF AnyOf(last_message, {"no", "cannot", "firm", "minimum"})
        THEN Text(<<"rejection", a>>, <<CounterOffer(target_price)>>)
        ELSE IF AnyOf(last_message, {"yes", "okay", "accept", "deal"})
        THEN Text(<<"accepted", "any">>, << >>)
        ELSE IF AnyOf(last_message, {"meet", "pickup", "delivery"})
        THEN Text(<<"logistics", "any">>, << >>)
        ELSE IF AnyOf(last_message, {"condition", "working", "problem"})
        \* not an f-string: the text holds the placeholder, not the price
        THEN Text(<<"condition", "any">>, << >>)
        ELSE Text(<<"general", a>>, <<target_price>>)

\* random.choice of one of three texts
Picks == {"first", "second", "third"}

\* the first tactic of the fixed order that is among the tactics
TacticTemplate(tactics) ==
    IF "ANCHORING" \in tactics THEN "anchoring"
    ELSE IF "URGENCY" \in tactics THEN "urgency"
    ELSE IF "SCARCITY" \in tactics THEN "scarcity"
    ELSE IF "BUNDLING" \in tactics THEN "bundling"
    ELSE IF "RECIPROCITY" \in tactics THEN "reciprocity"
    ELSE "none"

\* pick is the draw of random.choice; an optional value is a set
get_enhanced_fallback_response(session_data, seller_message, tactics, decision, pick) ==
    LET approach == session_data.approach
        target_price == session_data.target_price
        action == IF decision.action = {} THEN "continue"
                  ELSE CHOOSE a \in decision.action : TRUE
    IN  IF action = "accept" THEN Text(<<"accept", pick>>, << >>)
        ELSE IF action = "walk_away" THEN Text(<<"walk_away", pick>>, << >>)
        ELSE IF action \in {"counter_offer", "final_offer"}
        THEN LET offer == IF decision.offer = {} THEN target_price
                          ELSE CHOOSE o \in decision.offer : TRUE
             IN  IF TacticTemplate(tactics) # "none"
                 THEN Text(<<"offer", TacticTemplate(tactics)>>, <<offer>>)
                 ELSE Text(<<"offer", approach>>, <<offer>>)
        ELSE IF AnyOf(seller_message, {"hi", "hello"})
        THEN Text(<<"explore_greeting", "any">>, <<target_price>>)
        ELSE IF AnyOf(seller_message, {"price", "offer"})
        THEN IF session_data.average_price # {}
                    /\ session_data.average_price # {0}
             THEN Text(<<"explore_average", "any">>,
                       <<CHOOSE p \in session_data.average_price : TRUE,
                         target_price>>)
             ELSE Text(<<"explore_price", "any">>, <<target_price>>)
        ELSE Text(<<"explore", "any">>, << >>)

\* the outcome of _call_gemini_api, when the model is configured
ApiOutcomes == {Raises, [kind |-> "returns"]}

\* generate_response; configured: self.model is set
generate_response(configured, api, approach, target_price, max_budget, history) ==
    IF ~configured
    THEN get_fallback_response(ToApproach(approach), target_price, history)
    ELSE IF api = Raises
    THEN get_fallback_response(ToApproach(approach), target_price, history)
    ELSE GeneratedText

generate_strategic_response(configured, api, session_data, seller_message, tactics, decision, pick) ==
    IF ~configured
    THEN get_enhanced_fallback_response(session_data, seller_message, tactics,
                                        decision, pick)
    ELSE IF api = Raises
    THEN get_enhanced_fallback_response(session_data, seller_message, tactics,
                                        decision, pick)
    ELSE GeneratedText

(***************************************************************************)
(* The calls of the response service.  The caller takes the text before    *)
(* the next call; a call may be made again with the same arguments.        *)
(***************************************************************************)
\* 100: int(100 * 1.15) is truncated to 114
RenderPrices == {100} \cup SessionPrices
PricePairs == {x \in RenderPrices \X RenderPrices : x[1] <= x[2]}

PriceTalk == {"price"}
Agreement == {"okay"}
Logistics == {"pickup"}
ConditionTalk == {"condition"}
Thinking == {"maybe"}
RenderTexts ==
    {Greeting, PriceTalk, Rejection, Agreement, Logistics, ConditionTalk,
     Thinking}

\* the chat histories of generate_response: no seller message yet, or the
\* buyer's opening and a seller message
RenderHistories ==
    {<< >>, <<ChatMessage("buyer", Greeting)>>}
        \cup {<<ChatMessage("buyer", Greeting), ChatMessage("seller", t)>> :
                  t \in RenderTexts}

ApproachInputs == ApproachNames \cup {"friendly"}

\* the average price of the market analysis of a session, when it has one
AveragePrices == {{}, {48000}, {60000}}

StrategicSession(a, t, b, avg) ==
    [approach |-> a, target_price |-> t, max_budget |-> b,
     average_price |-> avg]

StrategicTexts == {Greeting, PriceTalk, Rejection}

TacticLists ==
    {{}, {"ANCHORING"}, {"URGENCY"}, {"SCARCITY"}, {"BUNDLING"},
     {"RECIPROCITY"}, {"URGENCY", "RECIPROCITY"}}

\* the decision of the engine: an action and, for an offer, a price within
\* the bounds of the session
StrategicDecisions(t, b) ==
    [action : {{}, {"accept"}, {"walk_away"}}, offer : {{}}]
        \cup [action : {{"counter_offer"}, {"final_offer"}},
              offer : {{}, {t}, {b}}]

InitRender ==
    /\ CalcIdle
    /\ ChainIdle
    /\ PhaseIdle
    /\ RenderIdle
    /\ AgentIdle
    /\ CallIdle
    /\ MainIdle
    /\ MarketIdle
    /\ ScrapeIdle
    /\ StrategyIdle

Returns(text) == [kind |-> "returned", text |-> text]

\* the outcome of making the call render_call describes; pick is the draw
\* of random.choice during the call
Render(c, pick) ==
    IF c.kind = "generate_response"
    THEN Returns(generate_response(c.configured, c.api, c.approach,
                                   c.target_price, c.max_budget,
                                   c.chat_history))
    ELSE Returns(generate_strategic_response(c.configured, c.api, c.session_data,
                                             c.seller_message, c.tactics,
                                             c.decision, pick))

GenerateResponse ==
    /\ render_call = NoCall
    /\ \E configured \in BOOLEAN :
       \E api \in IF configured THEN ApiOutcomes ELSE {Unused} :
       \E approach \in ApproachInputs, tb \in PricePairs,
          history \in RenderHistories :
          LET c == [kind |-> "generate_response", configured |-> configured,
                    api |-> api, approach |-> approach,
                    target_price |-> tb[1], max_budget |-> tb[2],
                    chat_history |-> history]
          IN  /\ render_call' = c
              /\ \E pick \in Picks : rendered' = Render(c, pick)
    /\ UNCHANGED notRender

GenerateStrategicResponse ==
    /\ render_call = NoCall
    /\ \E configured \in BOOLEAN :
       \E api \in IF configured THEN ApiOutcomes ELSE {Unused} :
       \E approach \in ApproachNames, tb \in PricePairs, avg \in AveragePrices,
          seller_message \in StrategicTexts, tactics \in TacticLists :
       \E decision \in StrategicDecisions(tb[1], tb[2]) :
          LET c == [kind |-> "generate_strategic_response",
                    configured |-> configured, api |-> api,
                    session_data |-> StrategicSession(approach, tb[1], tb[2], avg),
                    seller_message |-> seller_message, tactics |-> tactics,
                    decision |-> decision]
          IN  /\ render_call' = c
              /\ \E pick \in Picks : rendered' = Render(c, pick)
    /\ UNCHANGED notRender

\* the same call once more: same arguments, same state of the service
RepeatCall ==
    /\ render_call # NoCall
    /\ \E pick \in Picks : rendered' = Render(render_call, pick)
    /\ UNCHANGED <<render_call, notRender>>

TakeText ==
    /\ render_call # NoCall
    /\ render_call' = NoCall
    /\ rendered' = NoCall
    /\ UNCHANGED notRender

NextRender ==
    GenerateResponse \/ GenerateStrategicResponse \/ RepeatCall \/ TakeText

SpecRender == InitRender /\ [][NextRender]_vars

(***************************************************************************)
(* Properties of the response service.                                     *)
(***************************************************************************)
TextReturned == rendered.kind = "returned"

CallTarget ==
    IF render_call.kind = "generate_response" THEN render_call.target_price
    ELSE render_call.session_data.target_price

CallBudget ==
    IF render_call.kind = "generate_response" THEN render_call.max_budget
    ELSE render_call.session_data.max_budget

\* the model is not configured, or the call of the model raises
FallbackDue ==
    /\ render_call # NoCall
    /\ (~render_call.configured \/ render_call.api = Raises)

\* C14: every price a fallback template puts into the buyer's text lies
\* within [target_price, max_budget], for every target_price <= max_budget.
C14_TemplatePricesWithinBounds ==
    (TextReturned /\ FallbackDue) =>
        \A i \in DOMAIN rendered.text.prices :
            /\ CallTarget <= rendered.text.prices[i]
            /\ rendered.text.prices[i] <= CallBudget

\* C15: when the model is not configured or raises, the service returns a
\* fallback template text and does not raise, and the same call returns the
\* same text again.
C15_FallbackTextDeterministic ==
    [][/\ FallbackDue' => (rendered'.kind = "returned"
                               /\ rendered'.text # GeneratedText)
       /\ (FallbackDue /\ render_call' = render_call) => rendered' = rendered]_vars

(***************************************************************************)
(* The agent of the service and its conversation memory.  The service has  *)
(* one LangChainNegotiationAgent, built once with one                      *)
(* ConversationBufferMemory; every session's turn runs that agent.  A run  *)
(* loads the memory into its inputs as chat_history and, when it returns,  *)
(* saves the prompt and the reply in the memory.                           *)
(***************************************************************************)
SessionIds == {"s1", "s2", "s3"}
MaxRuns == 4

MemoryEntry(session, type) == [session |-> session, type |-> type]

\* save_context after a run that returned
SaveContext(memory, session) ==
    memory \o <<MemoryEntry(session, "human"), MemoryEntry(session, "ai")>>

InitAgent ==
    /\ CalcIdle
    /\ ChainIdle
    /\ PhaseIdle
    /\ RenderIdle
    /\ AgentIdle
    /\ CallIdle
    /\ MainIdle
    /\ MarketIdle
    /\ ScrapeIdle
    /\ StrategyIdle

\* _run_agent_async for a turn of a session: agent.run(prompt) returns, or
\* raises and the fallback JSON is returned
RunAgent ==
    /\ Len(agent_memory) < 2 * MaxRuns
    /\ \E session \in SessionIds, outcome \in {"returns", "raises"} :
          /\ agent_run' = [kind |-> "run", session |-> session,
                           chat_history |-> agent_memory, outcome |-> outcome]
          /\ agent_memory' = IF outcome = "returns"
                             THEN SaveContext(agent_memory, session)
                             ELSE agent_memory
    /\ UNCHANGED notAgent

NextAgent == RunAgent

SpecAgent == InitAgent /\ [][NextAgent]_vars

\* C16: distinct sessions share no mutable state, the conversation memory
\* of the agent included: what the agent's run for a turn of a session
\* loads from the memory was put there by that session only, so that the
\* decision does not depend on the turns of other sessions.
C16_SessionsShareNoMemory ==
    agent_run.kind = "run" =>
        \A i \in DOMAIN agent_run.chat_history :
            agent_run.chat_history[i].session = agent_run.session

(***************************************************************************)
(* The handlers of backend/main.py over the sessions of the session        *)
(* manager.  A handler is a coroutine: it runs up to an await that         *)
(* suspends it, and other handlers run meanwhile.  The session manager and *)
(* the models (NegotiationParams, NegotiationSession) are collaborators of *)
(* main.py.                                                                *)
(***************************************************************************)
MaxMessages == 3

CreationRequest(t, b) == [target_price |-> t, max_budget |-> b]

\* creation requests: a price that fails the gt=0 validation of the fields,
\* a target within the budget, at the budget and above the budget
CreationRequests ==
    {CreationRequest(0, 45000), CreationRequest(45000, 50000),
     CreationRequest(50000, 50000), CreationRequest(50000, 45000)}

\* URLNegotiationRequest: both prices are validated with gt=0, nothing else
URLNegotiationRequest_valid(request) ==
    request.target_price > 0 /\ request.max_budget > 0

\* NegotiationParams(...): the user parameters of a session hold
\* target_price <= max_budget; a violation is a validation error
NegotiationParams(request) ==
    IF request.target_price <= request.max_budget
    THEN [kind |-> "params", target_price |-> request.target_price,
          max_budget |-> request.max_budget]
    ELSE Raises

\* the outcomes of session_manager.create_session_from_url
CreateOutcomes == {"created", "none", "raises"}

CreationFailed == [success |-> FALSE, params |-> {}]

\* the handler hands the request to the session manager as it is
start_negotiation_from_url_RawRequest(request, create_outcome) ==
    IF create_outcome = "created"
    THEN [success |-> TRUE,
          params |-> {[kind |-> "params",
                       target_price |-> request.target_price,
                       max_budget |-> request.max_budget]}]
    ELSE CreationFailed

\* start_negotiation_from_url: the response, and the parameters of the
\* session when one is created
start_negotiation_from_url(request, create_outcome) ==
    LET params == NegotiationParams(request)
    IN  IF params = Raises THEN CreationFailed
        ELSE IF create_outcome = "raises" THEN CreationFailed
        ELSE IF create_outcome = "none" THEN CreationFailed
        ELSE [success |-> TRUE, params |-> {params}]

NewSession(params) ==
    [status |-> "active", messages |-> << >>,
     target_price |-> params.target_price, max_budget |-> params.max_budget]

\* session.messages = [override_msg]
LogOverride_Replace(messages) == <<ChatMessage("user", Greeting)>>

\* session.messages.append(override_msg)
LogOverride(messages) == Append(messages, ChatMessage("user", Greeting))

\* the messages the session manager stores for a seller message and the
\* buyer's reply to it
StoreExchange(messages) ==
    messages \o <<ChatMessage("seller", Greeting), ChatMessage("buyer", Greeting)>>

InitMain ==
    /\ CalcIdle
    /\ ChainIdle
    /\ PhaseIdle
    /\ RenderIdle
    /\ AgentIdle
    /\ CallIdle
    /\ MainIdle
    /\ MarketIdle
    /\ ScrapeIdle
    /\ StrategyIdle

Created == DOMAIN session_objects

WithSession(objects, id, session) ==
    [k \in DOMAIN objects \cup {id} |-> IF k = id THEN session ELSE objects[k]]

\* POST /api/negotiate-url
StartNegotiationFromUrl ==
    /\ Created # MainSessionIds
    /\ \E request \in CreationRequests, create_outcome \in CreateOutcomes :
          LET id == IF "s1" \notin Created THEN "s1" ELSE "s2"
              response == start_negotiation_from_url(request, create_outcome)
          IN  IF ~URLNegotiationRequest_valid(request)
              THEN /\ creation' = [kind |-> "rejected", request |-> request,
                                   success |-> FALSE, session_id |-> {}]
                   /\ UNCHANGED <<active_sessions, session_objects>>
              ELSE IF response.success
              THEN /\ creation' = [kind |-> "response", request |-> request,
                                   success |-> TRUE, session_id |-> {id}]
                   /\ active_sessions' = active_sessions \cup {id}
                   /\ session_objects' =
                          WithSession(session_objects, id,
                                      NewSession(CHOOSE p \in response.params : TRUE))
              ELSE /\ creation' = [kind |-> "response", request |-> request,
                                   success |-> FALSE, session_id |-> {}]
                   /\ UNCHANGED <<active_sessions, session_objects>>
    /\ UNCHANGED <<tasks, sent_to_seller, notMain>>

SellerTasks == {"ws_seller", "post_seller"}

Processing(t) == tasks[t].pc = "processing"

\* a seller message arrives on /ws/seller/{session_id} or with
\* POST /api/seller-response; the handler finds the session active and
\* awaits the session manager
SellerMessageReceived ==
    \E t \in SellerTasks, id \in active_sessions :
        /\ tasks[t] = IdleTask
        /\ Len(session_objects[id].messages) + 2 <= MaxMessages
        /\ tasks' = [tasks EXCEPT ![t] = [pc |-> "processing", session |-> id]]
        /\ UNCHANGED <<active_sessions, session_objects, creation, sent_to_seller,
                       notMain>>

ProcessOutcomes == {"ai_response", "handoff", "session_completed", "raises"}

\* what processing a seller message does to the session: the exchange is
\* stored; a completed negotiation makes the session terminal
process_seller_response(session, outcome) ==
    IF outcome = "raises" THEN session
    ELSE IF outcome = "session_completed"
    THEN [session EXCEPT !.messages = StoreExchange(@), !.status = "completed"]
    ELSE [session EXCEPT !.messages = StoreExchange(@)]

\* what handle_advanced_seller_message sends to the seller for a result
SellerNotices(outcome) ==
    CASE outcome = "ai_response" -> <<"ai_message">>
      [] outcome = "handoff" -> <<"handoff_message">>
      [] outcome = "session_completed" -> <<"session_completed">>
      [] OTHER -> << >>

\* the session manager is done with the message; the handler forwards the
\* result and ends.  Only the handler of /ws/seller sends the result on
SellerMessageProcessed ==
    \E t \in SellerTasks, outcome \in ProcessOutcomes :
        /\ Processing(t)
        /\ LET id == tasks[t].session
           IN  /\ session_objects' =
                      [session_objects EXCEPT
                          ![id] = process_seller_response(@, outcome)]
               /\ active_sessions' = IF outcome = "session_completed"
                                     THEN active_sessions \ {id}
                                     ELSE active_sessions
               /\ sent_to_seller' =
                      IF t = "ws_seller"
                      THEN [sent_to_seller EXCEPT
                               ![id] = @ \o SellerNotices(outcome)]
                      ELSE sent_to_seller
        /\ tasks' = [tasks EXCEPT ![t] = IdleTask]
        /\ UNCHANGED <<creation, notMain>>

\* handle_user_override up to the await of the send to the seller
OverrideReceived ==
    \E id \in active_sessions :
        /\ tasks["ws_user"] = IdleTask
        /\ Len(session_objects[id].messages) < MaxMessages
        /\ tasks' = [tasks EXCEPT !["ws_user"] =
                                      [pc |-> "override_sent", session |-> id]]
        /\ sent_to_seller' = [sent_to_seller EXCEPT ![id] = Append(@, "override_message")]
        /\ UNCHANGED <<active_sessions, session_objects, creation, notMain>>

\* handle_user_override after the send: the override is logged in the
\* session; a session removed meanwhile is a KeyError, which is logged
OverrideLogged ==
    /\ tasks["ws_user"].pc = "override_sent"
    /\ LET id == tasks["ws_user"].session
       IN  session_objects' =
               IF id \in active_sessions
               THEN [session_objects EXCEPT ![id].messages = LogOverride(@)]
               ELSE session_objects
    /\ tasks' = [tasks EXCEPT !["ws_user"] = IdleTask]
    /\ UNCHANGED <<active_sessions, creation, sent_to_seller, notMain>>

\* handle_session_end_request up to the await of db.save_session
EndRequested ==
    \E id \in active_sessions :
        /\ tasks["ws_user"] = IdleTask
        /\ session_objects' = [session_objects EXCEPT ![id].status = "cancelled"]
        /\ tasks' = [tasks EXCEPT !["ws_user"] =
                                      [pc |-> "end_saving", session |-> id]]
        /\ UNCHANGED <<active_sessions, creation, sent_to_seller, notMain>>

\* handle_session_end_request after the save: the session is removed from
\* the active sessions and both parties are notified
EndRemoved ==
    /\ tasks["ws_user"].pc = "end_saving"
    /\ active_sessions' = active_sessions \ {tasks["ws_user"].session}
    /\ sent_to_seller' = [sent_to_seller EXCEPT
                             ![tasks["ws_user"].session] = Append(@, "session_ended")]
    /\ tasks' = [tasks EXCEPT !["ws_user"] = IdleTask]
    /\ UNCHANGED <<session_objects, creation, notMain>>

\* db.save_session raises: the except clause of handle_session_end_request
\* logs the error and the handler ends before the del statement
EndSaveFailed ==
    /\ tasks["ws_user"].pc = "end_saving"
    /\ tasks' = [tasks EXCEPT !["ws_user"] = IdleTask]
    /\ UNCHANGED <<active_sessions, session_objects, creation, sent_to_seller,
                   notMain>>

NextMain ==
    \/ StartNegotiationFromUrl
    \/ SellerMessageReceived
    \/ SellerMessageProcessed
    \/ OverrideReceived
    \/ OverrideLogged
    \/ EndRequested
    \/ EndRemoved
    \/ EndSaveFailed

SpecMain == InitMain /\ [][NextMain]_vars

(***************************************************************************)
(* Properties of the handlers of main.py.                                  *)
(***************************************************************************)
\* C17: main.py never has two computations of a seller message in progress
\* for one session id, whether the messages arrive on /ws/seller or with
\* POST /api/seller-response.
C17_OneSellerComputationPerSession ==
    \A t1, t2 \in SellerTasks :
        (t1 # t2 /\ Processing(t1) /\ Processing(t2)) =>
            tasks[t1].session # tasks[t2].session

CreationAnswered == creation.kind = "response"

AboveBudget(request) == request.target_price > request.max_budget

IsPrefix(a, b) == Len(a) <= Len(b) /\ SubSeq(b, 1, Len(a)) = a

\* C20: the message sequence of a session is append-only under every
\* handler of main.py (seller messages, user overrides, end of session): a
\* step keeps every stored message in its place and only adds at the end.
C20_MessagesAppendOnly ==
    [][\A id \in Created :
           /\ id \in DOMAIN session_objects'
           /\ IsPrefix(session_objects[id].messages,
                       session_objects'[id].messages)]_vars

\* a session that holds a stored exchange followed by a user override, and
\* that was ended by the user
C20_Witness ==
    \E id \in Created :
        /\ session_objects[id].status = "cancelled"
        /\ id \notin active_sessions
        /\ Len(session_objects[id].messages) = 3
        /\ session_objects[id].messages[1].sender = "seller"
        /\ session_objects[id].messages[3].sender = "user"

(***************************************************************************)
(* make_negotiation_decision step by step.  The service awaits the run of  *)
(* the agent, a call of an external generative service, which answers      *)
(* (returns or raises) or never does; the code resumes when the answer is  *)
(* there.  The enhancement awaits gemini_service.generate_text, which      *)
(* GeminiOnlyService does not define: that await is over at once, and its  *)
(* outcome is kept as general as in make_negotiation_decision.             *)
(***************************************************************************)
ServiceConfigs == [use_langchain : BOOLEAN, gemini_api_key : BOOLEAN]

NoOutcomes ==
    [prepare_ok |-> TRUE, context_valid |-> TRUE, agent |-> Unused,
     engine1 |-> Unused, gemini |-> Unused, engine2 |-> Unused]

InitCall ==
    /\ CalcIdle
    /\ ChainIdle
    /\ PhaseIdle
    /\ RenderIdle
    /\ AgentIdle
    /\ CallIdle
    /\ MainIdle
    /\ MarketIdle
    /\ ScrapeIdle
    /\ StrategyIdle

\* the call goes on from the engine stage and returns
FromEngineStage(s, srv, env) ==
    LET accepted == env.agent # Unused
                    /\ AcceptsPrimary(generate_negotiation_response(env.agent))
    IN
    \E engine1 \in IF env.prepare_ok /\ ~accepted
                   THEN EngineOutcomes(s) ELSE {Unused} :
    \E engine2 \in IF ~env.prepare_ok \/ engine1.kind = "raises"
                   THEN EngineOutcomes(s) ELSE {Unused} :
    \E gemini \in IF engine1.kind = "returns" /\ srv.gemini_api_key
                  THEN GeminiOutcomes ELSE {Unused} :
       LET env2 == [env EXCEPT !.engine1 = engine1, !.engine2 = engine2,
                               !.gemini = gemini]
       IN  call' = [pc |-> "returned", session |-> s, srv |-> srv, env |-> env2,
                    returned |-> make_negotiation_decision(srv, s, env2).returned]

\* the call up to its first await
StartDecision ==
    /\ call.pc = "idle"
    /\ \E s \in Sessions, srv \in ServiceConfigs, prepare_ok \in BOOLEAN :
       \E context_valid \in IF prepare_ok /\ srv.use_langchain
                            THEN BOOLEAN ELSE {TRUE} :
          LET env == [NoOutcomes EXCEPT !.prepare_ok = prepare_ok,
                                        !.context_valid = context_valid]
          IN  IF prepare_ok /\ srv.use_langchain /\ context_valid
              THEN call' = [pc |-> "agent_run", session |-> s, srv |-> srv,
                            env |-> env]
              ELSE FromEngineStage(s, srv, env)
    /\ UNCHANGED notCall

\* the external service answers the run of the agent
AgentAnswers ==
    /\ call.pc = "agent_run"
    /\ \E agent \in AgentOutcomes(call.session) :
          call' = [call EXCEPT !.pc = "agent_answered", !.env.agent = agent]
    /\ UNCHANGED notCall

\* agent.run has its answer: the call goes on
ResumeAfterAgent ==
    /\ call.pc = "agent_answered"
    /\ FromEngineStage(call.session, call.srv, call.env)
    /\ UNCHANGED notCall

\* the caller has the decision
TakeResult ==
    /\ call.pc = "returned"
    /\ call' = [pc |-> "idle"]
    /\ UNCHANGED notCall

NextCall ==
    \/ StartDecision
    \/ AgentAnswers
    \/ ResumeAfterAgent
    \/ TakeResult

SpecCall == InitCall /\ [][NextCall]_vars

\* the event loop runs every step of the code that can run; whether and
\* when an external service answers is not the code's to decide
SpecCallFair ==
    /\ SpecCall
    /\ WF_vars(ResumeAfterAgent)
    /\ WF_vars(TakeResult)

ExternalCallPending == call.pc = "agent_run"

\* C18: every call of an external generative service is bounded by a
\* timeout that is treated like an unavailable service, so that
\* make_negotiation_decision eventually returns.
C18_DecisionEventuallyReturns ==
    ExternalCallPending ~> (call.pc = "returned")

(***************************************************************************)
(* The market intelligence of backend/scraper_service.py.  A title is the  *)
(* set of the keywords of the estimator that occur in the lower-cased      *)
(* title; a title or a price that is not of its type is marked by the      *)
(* flags title_ok and price_ok of the call.                                *)
(***************************************************************************)
CategoryNames ==
    {"Mobile Phones", "Laptops & Computers", "Cars", "Vehicles",
     "Electronics", "Gaming", "Home & Garden"}

Band(min, max) == [min |-> min, max |-> max]

\* self.category_price_ranges.get(category, {'min': 1000, 'max': 100000})
CategoryInfo(category) ==
    CASE category = "Mobile Phones" -> Band(5000, 150000)
      [] category = "Laptops & Computers" -> Band(15000, 300000)
      [] category = "Cars" -> Band(100000, 5000000)
      [] category = "Vehicles" -> Band(20000, 200000)
      [] category = "Electronics" -> Band(2000, 100000)
      [] category = "Gaming" -> Band(5000, 80000)
      [] category = "Home & Garden" -> Band(1000, 150000)
      [] OTHER -> Band(1000, 100000)

\* premium_multipliers and age_keywords in the order of the dictionaries,
\* the factors in hundredths
PremiumMultipliers ==
    << <<"apple", 130>>, <<"iphone", 130>>, <<"macbook", 140>>,
       <<"samsung", 120>>, <<"sony", 120>>, <<"lg", 110>>,
       <<"mercedes", 150>>, <<"bmw", 140>>, <<"audi", 140>>,
       <<"premium", 120>>, <<"pro", 115>>, <<"plus", 110>> >>

AgeKeywords ==
    << <<"2024", 95>>, <<"2023", 85>>, <<"2022", 75>>, <<"2021", 65>>,
       <<"new", 100>>, <<"old", 70>>, <<"vintage", 50>> >>

\* the factor of the first keyword of the table that occurs in the title
\* (the loop breaks at the first one), or the default
FirstFactor(table, title, default) ==
    LET hits == {i \in DOMAIN table : table[i][1] \in title}
    IN  IF hits = {} THEN default
        ELSE table[CHOOSE i \in hits : \A j \in hits : i <= j][2]

\* the products median * multiplier * age_factor whose double lies just
\* below the integer the exact product gives, so that int() yields one
\* less: <<(min + max) / 1000, multiplier, age_factor>>
FloatShortfall ==
    {<<155, 120, 70>>, <<155, 110, 70>>, <<315, 110, 70>>,
     <<5100, 110, 70>>, <<5100, 115, 70>>,
     <<220, 150, 70>>, <<220, 115, 95>>, <<220, 115, 85>>, <<220, 115, 75>>,
     <<220, 115, 100>>, <<220, 115, 70>>, <<220, 115, 50>>,
     <<102, 115, 100>>, <<102, 115, 70>>, <<102, 115, 50>>,
     <<85, 100, 70>>, <<85, 140, 95>>, <<85, 140, 85>>, <<85, 140, 75>>,
     <<85, 140, 100>>, <<85, 140, 70>>, <<85, 140, 50>>, <<85, 115, 80>>,
     <<85, 115, 100>>, <<151, 120, 70>>, <<151, 110, 70>>, <<101, 115, 100>>}

\* int(category_median * multiplier * age_factor); the median is
\* 500 * k for k = (min + max) / 1000
MedianEstimate(category_info, multiplier, age_factor) ==
    LET k == (category_info.min + category_info.max) \div 1000
        exact == (k * multiplier * age_factor) \div 20
    IN  IF <<k, multiplier, age_factor>> \in FloatShortfall
        THEN exact - 1 ELSE exact

ReturnsValue(value) == [kind |-> "returned", value |-> value]

\* the variant that returns the blended estimate without the final clamp
estimate_market_value_Unclamped(title_ok, title, category, price_ok, current_price) ==
    LET category_info == CategoryInfo(category)
        multiplier == Max(100, FirstFactor(PremiumMultipliers, title, 100))
        age_factor == FirstFactor(AgeKeywords, title, 80)
        estimated == MedianEstimate(category_info, multiplier, age_factor)
        blended == IF /\ category_info.min <= current_price
                      /\ 2 * current_price <= 3 * category_info.max
                   THEN (estimated + current_price) \div 2
                   ELSE estimated
    IN  IF ~title_ok \/ ~price_ok THEN Raises ELSE ReturnsValue(blended)

estimate_market_value(title_ok, title, category, price_ok, current_price) ==
    LET category_info == CategoryInfo(category)
        multiplier == Max(100, FirstFactor(PremiumMultipliers, title, 100))
        age_factor == FirstFactor(AgeKeywords, title, 80)
        estimated == MedianEstimate(category_info, multiplier, age_factor)
        blended == IF /\ category_info.min <= current_price
                      /\ 2 * current_price <= 3 * category_info.max
                   THEN (estimated + current_price) \div 2
                   ELSE estimated
    IN  IF ~title_ok \/ ~price_ok
        THEN Raises   \* title.lower() or the comparison with the price fails
        ELSE ReturnsValue(Max(category_info.min, Min(blended, category_info.max)))

\* the price comparison subtracts from the price and fails on a price that
\* is not a number
get_fallback_market_analysis(price_ok, current_price, category) ==
    LET category_info == CategoryInfo(category)
    IN  IF ~price_ok THEN Raises
        ELSE ReturnsValue([estimated_market_value |->
                           (category_info.min + category_info.max) \div 2,
                       category_price_range |-> category_info,
                       source |-> "fallback"])

analyze_market_price(title_ok, title, category, price_ok, current_price) ==
    LET estimated == estimate_market_value(title_ok, title, category,
                                           price_ok, current_price)
    IN  IF estimated.kind = "returned"
        THEN ReturnsValue([estimated_market_value |-> estimated.value,
                       category_price_range |-> CategoryInfo(category),
                       source |-> "analysis"])
        ELSE get_fallback_market_analysis(price_ok, current_price, category)

(***************************************************************************)
(* Specification of the market intelligence: one call at a time with       *)
(* arguments drawn from the sets below.                                    *)
(***************************************************************************)
Titles ==
    {{}, {"old"}, {"apple"}, {"apple", "premium"}, {"iphone", "pro", "2023"},
     {"macbook", "2021"}, {"mercedes", "new"}, {"lg", "old"},
     {"pro", "vintage"}, {"plus", "2024"}, {"samsung", "2022"}}

\* "Other" and "Furniture" are not keys of category_price_ranges
Categories == CategoryNames \cup {"Other", "Furniture"}

\* listed prices around the edges of the band and of the blending range
ListedPrices(category) ==
    LET info == CategoryInfo(category)
    IN  {-1, 0, info.min - 1, info.min, (info.min + info.max) \div 2,
         info.max, (3 * info.max) \div 2, (3 * info.max) \div 2 + 1}

InitMarket ==
    /\ market = NoCall
    /\ CalcIdle
    /\ ChainIdle
    /\ PhaseIdle
    /\ RenderIdle
    /\ AgentIdle
    /\ CallIdle
    /\ MainIdle
    /\ ScrapeIdle
    /\ StrategyIdle

AnalyzeMarketPrice ==
    /\ market = NoCall
    /\ \E title_ok \in BOOLEAN, price_ok \in BOOLEAN, category \in Categories :
       \E title \in IF title_ok THEN Titles ELSE {{}} :
       \E current_price \in IF price_ok THEN ListedPrices(category) ELSE {0} :
          market' = [kind |-> "analyze_market_price",
                     title_ok |-> title_ok, title |-> title,
                     category |-> category,
                     price_ok |-> price_ok, current_price |-> current_price,
                     estimate |-> estimate_market_value(title_ok, title, category,
                                                        price_ok, current_price),
                     result |-> analyze_market_price(title_ok, title, category,
                                                     price_ok, current_price)]
    /\ UNCHANGED notMarket

TakeAnalysis ==
    /\ market # NoCall
    /\ market' = NoCall
    /\ UNCHANGED notMarket


InBand(value, category) ==
    /\ CategoryInfo(category).min <= value
    /\ value <= CategoryInfo(category).max

MarketPriceAnalysed == market.kind = "analyze_market_price"

\* C21: the estimated market value the estimator returns, directly and
\* through analyze_market_price with its fallback analysis, lies within
\* [category_min, category_max] of the category band, the generic band
\* 1000..100000 for an unknown category.
C21_EstimateWithinCategoryBand ==
    MarketPriceAnalysed =>
        /\ market.estimate.kind = "returned" =>
               InBand(market.estimate.value, market.category)
        /\ market.result.kind = "returned" =>
               InBand(market.result.value.estimated_market_value, market.category)
        /\ market.category \notin CategoryNames =>
               CategoryInfo(market.category) = Band(1000, 100000)

\* a call for an unknown category whose blended estimate exceeds the band
\* and is returned as the maximum of the generic band
C21_Witness ==
    /\ MarketPriceAnalysed
    /\ market.category \notin CategoryNames
    /\ market.current_price = 150000
    /\ market.estimate = ReturnsValue(100000)
    /\ market.result.kind = "returned"
    /\ market.result.value.source = "analysis"

(***************************************************************************)
(* The marketplace scraper of backend/scraper_service.py.  A URL is the    *)
(* marketplace its domain names and whether urlparse accepts it; the       *)
(* network is the outcome of each HTTP attempt.                            *)
(***************************************************************************)
Domains == {"olx", "facebook", "quikr", "other"}

\* one HTTP attempt: a page with the product, a status other than 200, a
\* page without a title element, a page without title or price, a timeout,
\* any other error (connection refused, DNS failure)
AttemptOutcomes == {"page", "status", "empty", "no_info", "timeout", "error"}

None == [kind |-> "none"]

Product(platform, scraped) ==
    [kind |-> "product", platform |-> platform, scraped_successfully |-> scraped,
     fallback_used |-> ~scraped]

create_fallback_product(domain) ==
    Product(CASE domain = "olx" -> "OLX"
              [] domain = "facebook" -> "Facebook Marketplace"
              [] OTHER -> "Marketplace",
            FALSE)

\* two attempts; every failure of the first one goes on to the second, and
\* every failure of the second one ends in the fallback product (an error
\* is raised again and caught by the outer handler)
scrape_olx(attempts) ==
    IF attempts[1] = "page" THEN Product("OLX", TRUE)
    ELSE IF attempts[2] = "page" THEN Product("OLX", TRUE)
    ELSE create_fallback_product("olx")

\* _scrape_facebook, _scrape_quikr and _scrape_generic: one attempt without
\* a timeout of its own, None for a status other than 200 and for every
\* exception; the record they build has no scraped_successfully key
PlatformOf(domain) ==
    CASE domain = "facebook" -> "Facebook Marketplace"
      [] domain = "quikr" -> "Quikr"
      [] OTHER -> "netloc"

scrape_single_attempt(domain, attempt) ==
    IF attempt \in {"page", "empty", "no_info"}
    THEN [kind |-> "product", platform |-> PlatformOf(domain)]
    ELSE None

\* the handler of scrape_product parses the URL again, so a URL urlparse
\* rejects raises out of it; the scrapers catch their own exceptions
scrape_product(parses, domain, attempts) ==
    IF ~parses THEN Raises
    ELSE IF domain = "olx" THEN scrape_olx(attempts)
    ELSE scrape_single_attempt(domain, attempts[1])

InitScrape ==
    /\ scrape = NoCall
    /\ CalcIdle
    /\ ChainIdle
    /\ PhaseIdle
    /\ RenderIdle
    /\ AgentIdle
    /\ CallIdle
    /\ MainIdle
    /\ MarketIdle
    /\ StrategyIdle

ScrapeProduct ==
    /\ scrape = NoCall
    /\ \E parses \in BOOLEAN, domain \in Domains,
          attempts \in AttemptOutcomes \X AttemptOutcomes :
          scrape' = [kind |-> "scrape_product", parses |-> parses,
                     domain |-> domain, attempts |-> attempts,
                     result |-> scrape_product(parses, domain, attempts)]
    /\ UNCHANGED notScrape

TakeProduct ==
    /\ scrape # NoCall
    /\ scrape' = NoCall
    /\ UNCHANGED notScrape

NextScrape ==
    \/ ScrapeProduct
    \/ TakeProduct

SpecScrape == InitScrape /\ [][NextScrape]_vars

\* a failed scraping of a marketplace other than OLX: a status other than
\* 200, a timeout or a connection error
ScrapingFailed ==
    /\ scrape.parses
    /\ scrape.domain # "olx"
    /\ scrape.attempts[1] \in {"status", "timeout", "error"}

\* C22: scrape_product returns a product record for every URL; when the
\* scraping fails it returns the fallback product, never None, and it does
\* not raise.
C22_ScrapeAlwaysReturnsProduct ==
    scrape.kind = "scrape_product" =>
        /\ scrape.result.kind = "product"
        /\ ScrapingFailed => scrape.result = create_fallback_product(scrape.domain)

(***************************************************************************)
(* The staged strategy as the policy states it, in exact arithmetic.       *)
(***************************************************************************)
ReferenceStagedOffer(current_price, target_price, max_budget, negotiation_round) ==
    LET raw == IF negotiation_round <= 2
               THEN (target_price * 11) \div 10
               ELSE IF negotiation_round <= 4
               THEN ((target_price + current_price) * 6) \div 10
               ELSE Min((max_budget * 95) \div 100,
                        ((target_price + current_price) * 7) \div 10)
    IN  Max(target_price, Min(raw, max_budget))

\* C23: for integer arguments every call of PriceCalculatorTool._run
\* returns the offer of the staged strategy: target_price x 1.1 up to round
\* 2, 0.6 x (target_price + listed_price) in rounds 3 and 4,
\* min(max_budget x 0.95, 0.7 x (target_price + listed_price)) afterwards,
\* truncated to an integer and clamped to [target_price, max_budget].
C23_OfferEqualsStagedReference ==
    calc.price_ok =>
        \A i \in 1..Len(results) :
            /\ results[i].status = "ok"
            /\ Offer(i) = ReferenceStagedOffer(calc.current_price, calc.target_price,
                                               calc.max_budget, i)

(***************************************************************************)
(* NegotiationStrategyTool._run of backend/langchain_agent.py.  The seller *)
(* message is the set of the phrases that occur in its lower-cased text;   *)
(* message_ok = FALSE is an argument that is not a string.                 *)
(***************************************************************************)
UrgencyIndicators == {"final", "last", "deadline", "urgent", "today only"}
FlexibilityIndicators == {"consider", "negotiate", "discuss", "flexible"}

GapTactics(price_difference) ==
    IF price_difference > 30
    THEN [strategy |-> "aggressive_negotiation",
          tactics |-> <<"anchoring", "alternative_options", "market_comparison">>]
    ELSE IF price_difference > 15
    THEN [strategy |-> "collaborative_negotiation",
          tactics |-> <<"reciprocal_concessions", "value_proposition",
                        "rapport_building">>]
    ELSE [strategy |-> "closing_negotiation",
          tactics |-> <<"final_offer", "commitment_seeking", "minor_concessions">>]

NegotiationStrategyTool_run(message_ok, seller_message, price_difference) ==
    LET is_urgent == AnyOf(seller_message, UrgencyIndicators)
        is_flexible == AnyOf(seller_message, FlexibilityIndicators)
        base == GapTactics(price_difference)
        with_urgent == IF is_urgent THEN Append(base.tactics, "deadline_leverage")
                       ELSE base.tactics
        tactics == IF is_flexible THEN Append(with_urgent, "creative_solutions")
                   ELSE with_urgent
    IN  IF ~message_ok THEN [status |-> "Strategy analysis failed"]
        ELSE [status |-> "ok", strategy |-> base.strategy, tactics |-> tactics,
              seller_analysis |-> [urgency |-> is_urgent, flexibility |-> is_flexible]]

\* gap percentages around the two thresholds
GapValues == {-5, 0, 14, 15, 16, 29, 30, 31, 50}

StrategyMessages == SUBSET {"hello", "final", "today only", "consider", "flexible"}

InitStrategy ==
    /\ strategy = NoCall
    /\ CalcIdle
    /\ ChainIdle
    /\ PhaseIdle
    /\ RenderIdle
    /\ AgentIdle
    /\ CallIdle
    /\ MainIdle
    /\ MarketIdle
    /\ ScrapeIdle

RunStrategyTool ==
    /\ strategy = NoCall
    /\ \E message_ok \in BOOLEAN, price_difference \in GapValues :
       \E seller_message \in IF message_ok THEN StrategyMessages ELSE {{}} :
          strategy' = [kind |-> "negotiation_strategy", message_ok |-> message_ok,
                       seller_message |-> seller_message,
                       price_difference |-> price_difference,
                       result |-> NegotiationStrategyTool_run(message_ok, seller_message,
                                                              price_difference)]
    /\ UNCHANGED notStrategy

TakeStrategy ==
    /\ strategy # NoCall
    /\ strategy' = NoCall
    /\ UNCHANGED notStrategy

NextStrategy ==
    \/ RunStrategyTool
    \/ TakeStrategy

SpecStrategy == InitStrategy /\ [][NextStrategy]_vars

\* the tactics of the stated policy: gap > 30, gap from 15 to 30 inclusive,
\* gap < 15
PolicyTactics(gap) ==
    IF gap > 30 THEN <<"anchoring", "alternative_options", "market_comparison">>
    ELSE IF gap >= 15
    THEN <<"reciprocal_concessions", "value_proposition", "rapport_building">>
    ELSE <<"final_offer", "commitment_seeking", "minor_concessions">>

PolicySignals(seller_message) ==
    (IF seller_message \cap UrgencyIndicators # {}
     THEN <<"deadline_leverage">> ELSE << >>)
    \o (IF seller_message \cap FlexibilityIndicators # {}
        THEN <<"creative_solutions">> ELSE << >>)

\* C24: the strategy tool returns the tactics of the policy for the price
\* gap percentage (> 30, 15 to 30 inclusive, < 15), followed by
\* deadline_leverage iff the seller message holds an urgency token and by
\* creative_solutions iff it holds a flexibility token.
C24_TacticsFollowGapPolicy ==
    (strategy.kind = "negotiation_strategy" /\ strategy.message_ok) =>
        /\ strategy.result.status = "ok"
        /\ strategy.result.tactics =
               PolicyTactics(strategy.price_difference)
               \o PolicySignals(strategy.seller_message)

(***************************************************************************)
(* The placeholders of the templates of _get_fallback_response.            *)
(***************************************************************************)
\* the format fields a returned text still holds as written: the template
\* of the condition inquiry is a plain string, not an f-string
Placeholders(text) ==
    IF text.template[1] = "condition" THEN <<"{target_price:,}">> ELSE << >>

\* the templates of _get_fallback_response whose wording names a price
PriceTemplates ==
    {"opening", "greeting", "price", "rejection", "condition", "general"}

BasicFallbackReturned ==
    /\ TextReturned
    /\ FallbackDue
    /\ render_call.kind = "generate_response"

\* C25: every template of _get_fallback_response that mentions a price
\* holds the numeric offer itself, the target price or the rejection
\* counter-offer, and no returned text holds a placeholder that was not
\* filled in.
C25_TemplatesInterpolateOffer ==
    (BasicFallbackReturned /\ rendered.text.template[1] \in PriceTemplates) =>
        /\ rendered.text.prices \in
               {<<render_call.target_price>>,
                <<CounterOffer(render_call.target_price)>>}
        /\ Placeholders(rendered.text) = << >>

(***************************************************************************)
(* Properties of the enhancement merge, stated of a turn in which          *)
(* _merge_gemini_enhancement was called and returned.                      *)
(***************************************************************************)
BaseDecision == turn.env.engine1.decision
Enhancement == get_gemini_enhancement(turn.env.gemini).value

MergeSucceeded ==
    /\ Returned
    /\ GeminiCalled
    /\ Invoked("merge_gemini_enhancement")
    /\ Get(Enhancement, "confidence_adjustment", JsonNumber(0)).num

\* b is a with at most n further elements, the first ones of extra
ExtendsBy(a, b, extra, n) ==
    \E k \in 0..Min(n, Len(extra)) : b = a \o SubSeq(extra, 1, k)

\* C26: a successful merge is bounded: the confidence is the base
\* confidence plus the adjustment, clamped to [0, 1]; at most 2 suggested
\* tactics follow the existing tactics_used, which keep their order; at
\* most 100 characters of the enhancement text follow the base message.
C26_MergeIsBounded ==
    MergeSucceeded =>
        /\ returned.confidence =
               Min(100, Max(0, BaseDecision.confidence
                               + Get(Enhancement, "confidence_adjustment",
                                     JsonNumber(0)).val))
        /\ ExtendsBy(BaseDecision.tactics_used, returned.tactics_used,
                     Get(Enhancement, "strategy_tips", << >>), 2)
        /\ \/ returned.message = BaseDecision.message
           \/ ExtendsBy(BaseDecision.message \o <<" ">>, returned.message,
                        Get(Enhancement, "message_enhancement", << >>), 100)

\* a merge that cut three tips down to two and clamped the confidence
\* 0.95 + 0.1 to 1
C26_Witness ==
    /\ MergeSucceeded
    /\ Len(Get(Enhancement, "strategy_tips", << >>)) = 3
    /\ BaseDecision.confidence = 95
    /\ returned.confidence = 100
    /\ returned.tactics_used = <<"anchoring", "tip1", "tip2">>

\* C30: the merge leaves action_type, price_offer and next_steps of the
\* decision as the base decision has them, and the base decision object
\* passed in, its tactics_used list included, is what it was before the
\* call.
C30_MergeKeepsOfferAndBase ==
    (Returned /\ GeminiCalled /\ Invoked("merge_gemini_enhancement")) =>
        /\ returned.action_type = BaseDecision.action_type
        /\ returned.price_offer = BaseDecision.price_offer
        /\ returned.next_steps = BaseDecision.next_steps
        /\ turn.engine_decision_object = BaseDecision
        /\ turn.engine_decision_object.tactics_used = BaseDecision.tactics_used

\* a merge that returned a decision with two more tactics and another
\* confidence for a priced base decision
C30_Witness ==
    /\ MergeSucceeded
    /\ BaseDecision.price_offer # {}
    /\ returned.price_offer = BaseDecision.price_offer
    /\ Len(returned.tactics_used) = Len(BaseDecision.tactics_used) + 2
    /\ returned.confidence # BaseDecision.confidence
    /\ turn.engine_decision_object = BaseDecision

(***************************************************************************)
(* Properties of the end of a session.                                     *)
(***************************************************************************)
EndHandlerRunning == tasks["ws_user"].pc = "end_saving"

\* C27: once handle_session_end_request has run for an active session,
\* whatever its outcome, a failure of db.save_session included, no session
\* with status cancelled is among the active sessions, so that later seller
\* messages for its id are not processed.
C27_CancelledSessionNotActive ==
    ~EndHandlerRunning =>
        \A id \in active_sessions : session_objects[id].status # "cancelled"

\* C29: after handle_session_end_request has removed a session and told the
\* seller that it ended, main.py sends the seller no AI-generated buyer
\* message for that session, however the handlers interleave.
C29_NoAiMessageAfterEnd ==
    \A id \in MainSessionIds :
        \A i, j \in DOMAIN sent_to_seller[id] :
            (i < j /\ sent_to_seller[id][i] = "session_ended") =>
                sent_to_seller[id][j] # "ai_message"

(***************************************************************************)
(* comprehensive_product_analysis of backend/scraper_service.py.  Of the   *)
(* analysis it returns the model keeps where it came from, the market      *)
(* analysis, the offers of the strategy and the confidence score.          *)
(***************************************************************************)
\* _generate_negotiation_strategy: after the offers, the phases and the
\* first two tactics the method reads product_data (line 987), which is
\* neither a parameter nor a local or global name: NameError on every call
generate_negotiation_strategy(current_price, user_target, user_budget, market_analysis) ==
    Raises

get_fallback_analysis(product_data, user_target, user_budget) ==
    LET market_analysis == get_fallback_market_analysis(product_data.price_ok,
                                                        product_data.price,
                                                        product_data.category)
    IN  IF market_analysis.kind = "raises" THEN Raises
        ELSE ReturnsValue([source |-> "fallback",
                           market_analysis |-> market_analysis.value,
                           strategy |-> [opening_offer |-> user_target,
                                         success_probability |-> 60],
                           confidence_score |-> 50])

\* the sub-analyses run inside one try block; whatever one of them raises
\* ends in _get_fallback_analysis, which is outside of it
comprehensive_product_analysis(product_data, user_target, user_budget) ==
    LET market_analysis == analyze_market_price(product_data.title_ok,
                                                product_data.title,
                                                product_data.category,
                                                product_data.price_ok,
                                                product_data.price)
        negotiation_strategy == IF market_analysis.kind = "raises" THEN Raises
                    ELSE generate_negotiation_strategy(product_data.price, user_target,
                                                       user_budget,
                                                       market_analysis.value)
    IN  IF negotiation_strategy.kind = "raises"
        THEN get_fallback_analysis(product_data, user_target, user_budget)
        ELSE ReturnsValue([source |-> "assembled",
                           market_analysis |-> market_analysis.value,
                           strategy |-> negotiation_strategy.value])

ProductData(title_ok, title, price_ok, price, category) ==
    [title_ok |-> title_ok, title |-> title, price_ok |-> price_ok,
     price |-> price, category |-> category]

AnalysisTitles == {{}, {"iphone", "pro", "2023"}, {"mercedes", "new"}}

ComprehensiveProductAnalysis ==
    /\ market = NoCall
    /\ \E title_ok \in BOOLEAN, price_ok \in BOOLEAN, category \in Categories,
          tb \in {x \in SessionPrices \X SessionPrices : x[1] <= x[2]} :
       \E title \in IF title_ok THEN AnalysisTitles ELSE {{}} :
       \E price \in IF price_ok THEN ListedPrices(category) ELSE {0} :
          LET product_data == ProductData(title_ok, title, price_ok, price, category)
          IN  market' = [kind |-> "comprehensive_product_analysis",
                         product_data |-> product_data,
                         user_target |-> tb[1], user_budget |-> tb[2],
                         result |-> comprehensive_product_analysis(product_data,
                                                                   tb[1], tb[2])]
    /\ UNCHANGED notMarket

NextMarket ==
    \/ AnalyzeMarketPrice
    \/ ComprehensiveProductAnalysis
    \/ TakeAnalysis

SpecMarket == InitMarket /\ [][NextMarket]_vars

WellFormedProduct ==
    /\ market.product_data.title_ok
    /\ market.product_data.price_ok
    /\ market.product_data.price > 0

\* C28: for a well-formed product the function returns the analysis
\* assembled from its sub-analyses, with the strategy's opening_offer at
\* most user_target and fallback_offer at most user_budget; the fallback
\* analysis is returned only when a sub-analysis raises because of its
\* input data; the function never raises.
C28_WellFormedProductGetsAssembledAnalysis ==
    (market.kind = "comprehensive_product_analysis" /\ WellFormedProduct) =>
        /\ market.result.kind = "returned"
        /\ market.result.value.source = "assembled"
        /\ market.result.value.strategy.opening_offer <= market.user_target
        /\ market.result.value.strategy.fallback_offer <= market.user_budget

====
